---- MODULE Spec2Model ----
(***************************************************************************)
(* The partitioned parquet price store (PricesRepoParquetPartitioned), its *)
(* manifest of write receipts (StorageReport) and the ingestion service    *)
(* that calls it (PricesIngestionService.ingest_window).                   *)
(*                                                                         *)
(* A DataFrame is a sequence of rows in frame order; a partition file is   *)
(* the DataFrame last written to it.  One action is one call of a public   *)
(* operation, with everything the call does (specification Spec).  The     *)
(* specification StepSpec runs the same write as the steps in which it     *)
(* reads and writes the files, for two callers at a time, any of which may *)
(* fail or die between two steps.  ReadSpec adds get_prices to such        *)
(* writes, KeySpec builds the idempotency keys of two requests, PathSpec   *)
(* resolves the files of two locations, and BothSpec makes every write on  *)
(* the partitioned store and on the single-file store PricesRepoParquet.   *)
(* LakeSpec keeps the store of one layer on the tree of data files that    *)
(* LakehousePaths lays out, LiveSpec schedules the steps of the writes and *)
(* of the read fairly, and QueueSpec runs the queue of job messages        *)
(* InMemoryQueueAdapter.                                                   *)
(***************************************************************************)
EXTENDS Integers, Sequences, FiniteSets, TLC

VARIABLES files, manifest, nCalls, last, prev, first, calls, torn, req, got, paths, single, lake,
          queue, reader

vars == <<files, manifest, nCalls, last, prev, first, calls, torn, req, got, paths, single, lake,
         queue, reader>>

-----------------------------------------------------------------------------
(* Bounds of the model *)

\* calls of write / ingest_window in one behaviour
MaxCalls == 2
\* rows in one incoming batch
MaxBatch == 2
\* symbols in the symbol list of one JobSpec
MaxSymbols == 2

-----------------------------------------------------------------------------
(* Rows: PriceRow, with the non-key columns open..volume represented by    *)
(* two of them, close and adj_close                                        *)

\* a float NaN, which pandas treats as NULL (isna)
NaN == -1

Symbols == {"A", "B"}

\* str order of the symbols, as groupby and sort_index order them
SymRank(s) == IF s = "A" THEN 1 ELSE 2

\* dates are <<year, month, day>>
D1 == <<2024, 1, 1>>
D2 == <<2024, 1, 2>>
D3 == <<2024, 2, 1>>

Dates == {D1, D2, D3}

DateLess(d, e) ==
    \/ d[1] < e[1]
    \/ d[1] = e[1] /\ d[2] < e[2]
    \/ d[1] = e[1] /\ d[2] = e[2] /\ d[3] < e[3]

PriceRow(s, d, c, a) == [symbol |-> s, date |-> d, close |-> c, adj_close |-> a]

\* the rows callers and fetchers supply
Rows ==
    { PriceRow("A", D1, 10, 10), PriceRow("A", D1, 12, 10),
      PriceRow("A", D1, 10, NaN), PriceRow("A", D2, 10, 10),
      PriceRow("A", D3, 10, 10), PriceRow("B", D1, 10, 10) }

NonPkCols == {"close", "adj_close"}

Batches == UNION { [1..n -> Rows] : n \in 0..MaxBatch }

-----------------------------------------------------------------------------
(* DataFrame helpers (pandas operations the merges use) *)

\* df[pk_cols].astype(str).agg("||".join, axis=1) for pk = ["symbol", "date"]
Key(r) == <<r.symbol, r.date>>

KeySet(df) == { Key(df[i]) : i \in DOMAIN df }

\* df[key.isin(ks)]: the rows whose key is in ks, in frame order
RowsIn(df, ks) == SelectSeq(df, LAMBDA r : Key(r) \in ks)

\* df[~key.isin(ks)]
RowsNotIn(df, ks) == SelectSeq(df, LAMBDA r : Key(r) \notin ks)

RECURSIVE TakeIdx(_, _, _)
\* the rows df[i], i >= from, for which keep[i] holds, in frame order
TakeIdx(df, keep, from) ==
    IF from > Len(df) THEN <<>>
    ELSE (IF keep[from] THEN <<df[from]>> ELSE <<>>) \o TakeIdx(df, keep, from + 1)

\* merged.drop_duplicates(subset=pk_cols, keep="last")
DropDuplicatesLast(df) ==
    TakeIdx(df, [i \in DOMAIN df |-> \A j \in DOMAIN df : j > i => Key(df[j]) # Key(df[i])], 1)

\* merged.drop_duplicates(subset=pk_cols, keep="first")
DropDuplicatesFirst(df) ==
    TakeIdx(df, [i \in DOMAIN df |-> \A j \in DOMAIN df : j < i => Key(df[j]) # Key(df[i])], 1)

KeyLess(k, l) ==
    \/ SymRank(k[1]) < SymRank(l[1])
    \/ k[1] = l[1] /\ DateLess(k[2], l[2])

RECURSIVE InsertSorted(_, _)
\* r placed after every row whose key is not greater (stable)
InsertSorted(sorted, r) ==
    IF sorted = <<>> THEN <<r>>
    ELSE IF KeyLess(Key(r), Key(Head(sorted)))
         THEN <<r>> \o sorted
         ELSE <<Head(sorted)>> \o InsertSorted(Tail(sorted), r)

RECURSIVE SortIndex(_)
\* df.set_index(pk_cols)[non_pk_cols].sort_index(): rows by key, ties in frame order
SortIndex(df) ==
    IF df = <<>> THEN <<>>
    ELSE InsertSorted(SortIndex(SubSeq(df, 1, Len(df) - 1)), df[Len(df)])

IsNa(v) == v = NaN

\* one cell of (comp_new != comp_old) & ~(comp_new.isna() & comp_old.isna()):
\* != is true whenever an operand is NaN
CellDiff(x, y) ==
    /\ (IsNa(x) \/ IsNa(y) \/ x # y)
    /\ ~(IsNa(x) /\ IsNa(y))

\* diffs.any(axis=1) for one aligned pair of rows
RowDiff(n, o) == \E c \in NonPkCols : CellDiff(n[c], o[c])

-----------------------------------------------------------------------------
(* MergeEngine: _upsert, _append, _insert_overwrite.  A result is          *)
(* [err, merged, inserted, updated, skipped]; err is the ValueError pandas *)
(* raises when two frames that are compared are not identically labelled.  *)

MergeResult(m, i, u, s) ==
    [err |-> FALSE, merged |-> m, inserted |-> i, updated |-> u, skipped |-> s]

MergeError == [err |-> TRUE, merged |-> <<>>, inserted |-> 0, updated |-> 0, skipped |-> 0]

\* the index of a frame after set_index(pk_cols)
IndexOf(df) == [i \in DOMAIN df |-> Key(df[i])]

\* int(diffs.any(axis=1).sum()) over the aligned frames
CountDiffs(comp_new, comp_old) ==
    Cardinality({ i \in DOMAIN comp_new : RowDiff(comp_new[i], comp_old[i]) })

\* _upsert with skipped computed without subtracting updated
UpsertSkippedMiscount(df_old, df_new) ==
    IF df_old = <<>>
    THEN MergeResult(df_new, Len(df_new), 0, 0)
    ELSE
      LET key_inter == KeySet(df_new) \cap KeySet(df_old)
          df_ins == RowsNotIn(df_new, KeySet(df_old))
          df_inter_new == RowsIn(df_new, key_inter)
          comp_new == SortIndex(df_inter_new)
          comp_old == SortIndex(RowsIn(df_old, key_inter))
      IN  IF df_inter_new # <<>> /\ IndexOf(comp_new) # IndexOf(comp_old)
          THEN MergeError
          ELSE MergeResult(
                 DropDuplicatesLast(RowsNotIn(df_old, key_inter) \o df_inter_new \o df_ins),
                 Len(df_ins),
                 IF df_inter_new # <<>> THEN CountDiffs(comp_new, comp_old) ELSE 0,
                 Len(df_new) - Len(df_ins))

\* _upsert that counts every row whose key the old frame holds as updated
UpsertCountsEveryHitUpdated(df_old, df_new) ==
    IF df_old = <<>>
    THEN MergeResult(df_new, Len(df_new), 0, 0)
    ELSE
      LET key_inter == KeySet(df_new) \cap KeySet(df_old)
          df_ins == RowsNotIn(df_new, KeySet(df_old))
          df_inter_new == RowsIn(df_new, key_inter)
          comp_new == SortIndex(df_inter_new)
          comp_old == SortIndex(RowsIn(df_old, key_inter))
      IN  IF df_inter_new # <<>> /\ IndexOf(comp_new) # IndexOf(comp_old)
          THEN MergeError
          ELSE MergeResult(
                 DropDuplicatesLast(RowsNotIn(df_old, key_inter) \o df_inter_new \o df_ins),
                 Len(df_ins),
                 Len(df_inter_new),
                 Len(df_new) - Len(df_ins) - Len(df_inter_new))

_upsert(df_old, df_new) ==
    IF df_old = <<>>
    THEN MergeResult(df_new, Len(df_new), 0, 0)
    ELSE
      LET set_new == KeySet(df_new)
          set_old == KeySet(df_old)
          key_insert == set_new \ set_old
          df_ins == RowsIn(df_new, key_insert)
          key_inter == set_new \cap set_old
          df_old_keep == RowsNotIn(df_old, key_inter)
          df_inter_new == RowsIn(df_new, key_inter)
          df_old_inter == RowsIn(df_old, key_inter)
          comp_new == SortIndex(df_inter_new)
          comp_old == SortIndex(df_old_inter)
      IN  IF df_inter_new # <<>> /\ IndexOf(comp_new) # IndexOf(comp_old)
          THEN MergeError
          ELSE
            LET updated == IF df_inter_new # <<>> THEN CountDiffs(comp_new, comp_old) ELSE 0
                skipped == Len(df_new) - Len(df_ins) - updated
                merged == DropDuplicatesLast(df_old_keep \o df_inter_new \o df_ins)
            IN  MergeResult(merged, Len(df_ins), updated, skipped)

\* _append that counts every row of the batch as inserted
AppendCountsAllInserted(df_old, df_new) ==
    IF df_old = <<>>
    THEN MergeResult(df_new, Len(df_new), 0, 0)
    ELSE
      LET key_insert == KeySet(df_new) \ KeySet(df_old)
          df_ins == RowsIn(df_new, key_insert)
          merged == DropDuplicatesFirst(df_old \o df_ins)
      IN  MergeResult(merged, Len(df_new), 0, 0)

_append(df_old, df_new) ==
    IF df_old = <<>>
    THEN MergeResult(df_new, Len(df_new), 0, 0)
    ELSE
      LET key_insert == KeySet(df_new) \ KeySet(df_old)
          df_ins == RowsIn(df_new, key_insert)
          merged == DropDuplicatesFirst(df_old \o df_ins)
          inserted == Len(df_ins)
      IN  MergeResult(merged, inserted, 0, Len(df_new) - inserted)

_insert_overwrite(df_old, df_new) ==
    IF df_old = <<>>
    THEN MergeResult(df_new, Len(df_new), 0, 0)
    ELSE
      LET df_old_keep == RowsNotIn(df_old, KeySet(df_new))
          merged == DropDuplicatesLast(df_old_keep \o df_new)
      IN  MergeResult(merged, Len(df_new), 0, 0)

WriteModes == {"UPSERT", "APPEND", "INSERT_OVERWRITE"}

\* the dispatch on write_mode in upsert_prices
Merge(write_mode, df_old, df_new) ==
    CASE write_mode = "UPSERT" -> _upsert(df_old, df_new)
      [] write_mode = "APPEND" -> _append(df_old, df_new)
      [] write_mode = "INSERT_OVERWRITE" -> _insert_overwrite(df_old, df_new)

-----------------------------------------------------------------------------
(* PathLayout: the partition file of a row, the partition files there are  *)

\* get_data_file(layer, dataset, symbol, date(year, month, 1)): symbol=S/year=Y/month=M
PartitionOf(r) == <<r.symbol, r.date[1], r.date[2]>>

Partitions == { PartitionOf(r) : r \in Rows }

\* groupby(["symbol", "_year", "_month"]) visits the groups in sorted key order
PartLess(p, q) ==
    \/ SymRank(p[1]) < SymRank(q[1])
    \/ p[1] = q[1] /\ p[2] < q[2]
    \/ p[1] = q[1] /\ p[2] = q[2] /\ p[3] < q[3]

RECURSIVE SortedParts(_)
SortedParts(ps) ==
    IF ps = {} THEN <<>>
    ELSE LET p == CHOOSE x \in ps : \A y \in ps \ {x} : PartLess(x, y)
         IN  <<p>> \o SortedParts(ps \ {p})

\* a grouping that hands every partition the whole batch
GroupOfWholeBatch(df, p) == df

\* the group of one partition key: its rows of the batch, in batch order
GroupOf(df, p) == SelectSeq(df, LAMBDA r : PartitionOf(r) = p)

NoFile == [exists |-> FALSE, rows |-> <<>>]

\* pd.read_parquet(file_path) if file_path.exists() else pd.DataFrame()
ReadPartition(fs, p) == IF fs[p].exists THEN fs[p].rows ELSE <<>>

\* a write of one partition file that clears the files of the other partitions
WritePartitionAlone(fs, p, merged) ==
    [q \in DOMAIN fs |-> IF q = p THEN [exists |-> TRUE, rows |-> merged] ELSE NoFile]

\* merged.to_parquet(file_path, index=False)
WritePartition(fs, p, merged) == [fs EXCEPT ![p] = [exists |-> TRUE, rows |-> merged]]

-----------------------------------------------------------------------------
(* StorageReport and the manifest (one JSON line per receipt) *)

None == [none |-> TRUE]

\* a manifest line that is not a JSON document, such as the head of a line whose
\* append was cut short
Malformed == [malformed |-> TRUE]

\* json.loads raising on such a line; _manifest_lookup catches FileNotFoundError only
JSONDecodeError == [raised |-> "JSONDecodeError"]

Location == "data/silver/prices_daily"

PrimaryKey == <<"symbol", "date">>

StorageReport(run_id, key, symbol, write_mode, rows, ins, upd, skip, ts) ==
    [ run_id |-> run_id, idempotency_key |-> key, engine |-> "PARQUET",
      source |-> "YFINANCE", location |-> Location, symbol |-> symbol,
      primary_key |-> PrimaryKey, layout_version |-> 1, write_mode |-> write_mode,
      rows |-> rows, inserted |-> ins, updated |-> upd, skipped |-> skip, ts |-> ts ]

\* the field constraints (ge=0) and the model validator check_counts
check_counts(r) ==
    /\ r.rows >= 0 /\ r.inserted >= 0 /\ r.updated >= 0 /\ r.skipped >= 0
    /\ r.rows = r.inserted + r.updated + r.skipped

\* the value of a StrEnum member, which is what model_dump(mode="json") writes
EnumValue(m) ==
    CASE m = "UPSERT" -> "upsert"
      [] m = "APPEND" -> "append"
      [] m = "INSERT_OVERWRITE" -> "insert_overwrite"
      [] m = "PARQUET" -> "parquet"
      [] m = "YFINANCE" -> "yfinance"

\* the StrEnum member of a value, as pydantic resolves it on StorageReport(**obj)
EnumMember(v) ==
    CASE v = "upsert" -> "UPSERT"
      [] v = "append" -> "APPEND"
      [] v = "insert_overwrite" -> "INSERT_OVERWRITE"
      [] v = "parquet" -> "PARQUET"
      [] v = "yfinance" -> "YFINANCE"

\* report.model_dump(mode="json"): enums by value, ts as an ISO string
model_dump(r) ==
    [r EXCEPT !.engine = EnumValue(r.engine), !.source = EnumValue(r.source),
              !.write_mode = EnumValue(r.write_mode), !.ts = <<"iso", r.ts>>]

\* StorageReport(**obj)
_report_from_manifest(obj) ==
    [obj EXCEPT !.engine = EnumMember(obj.engine), !.source = EnumMember(obj.source),
                !.write_mode = EnumMember(obj.write_mode), !.ts = obj.ts[2]]

\* a lookup that takes the first line whatever its key
ManifestLookupAnyKey(lines, key) ==
    IF lines = <<>> THEN None ELSE Head(lines)

\* a lookup that never finds a line
ManifestLookupNever(lines, key) == None

RECURSIVE _manifest_lookup(_, _)
\* the first line whose idempotency_key is key, or None; the scan ends with the
\* decode error at a malformed line it reaches before a match
_manifest_lookup(lines, key) ==
    IF lines = <<>> THEN None
    ELSE IF Head(lines) = Malformed THEN JSONDecodeError
    ELSE IF Head(lines).idempotency_key = key THEN Head(lines)
         ELSE _manifest_lookup(Tail(lines), key)

\* the manifest after _manifest_write: unchanged when the key is found (and when the
\* lookup raises), else with the dumped receipt appended
_manifest_write(lines, key, report) ==
    IF _manifest_lookup(lines, key) # None THEN lines
    ELSE Append(lines, model_dump(report))

\* "UNKNOWN" for an empty frame, the symbol of a one-symbol batch, else "MULTI"
_infer_symbol(df) ==
    IF df = <<>> THEN "UNKNOWN"
    ELSE IF \A i \in DOMAIN df : df[i].symbol = df[1].symbol THEN df[1].symbol
         ELSE "MULTI"

\* the columns of the frame _rows_to_df builds: those of PriceRow.model_dump(), and
\* none at all for a batch of no rows
Columns(df) == IF df = <<>> THEN {} ELSE {"symbol", "date"} \cup NonPkCols

\* lines 85-87: some column of primary_key is not a column of the frame
MissingPrimaryKey(df) == \E i \in DOMAIN PrimaryKey : PrimaryKey[i] \notin Columns(df)

-----------------------------------------------------------------------------
(* PartitionedStore.upsert_prices *)

RECURSIVE ProcessPartitions(_, _, _, _)
\* the loop over the groups: read, merge, write back, add up the counts.  A merge
\* that raises ends the loop; the partitions written before it stay written.
ProcessPartitions(parts, df_new, write_mode, acc) ==
    IF parts = <<>> \/ acc.err THEN acc
    ELSE
      LET p == Head(parts)
          partition_df == GroupOf(df_new, p)
          df_old == ReadPartition(acc.files, p)
          res == Merge(write_mode, df_old, partition_df)
          call == [partition |-> p, write_mode |-> write_mode, df_old |-> df_old,
                   df_new |-> partition_df, res |-> res]
      IN  IF res.err
          THEN [acc EXCEPT !.err = TRUE, !.merges = Append(@, call)]
          ELSE ProcessPartitions(Tail(parts), df_new, write_mode,
                 [ files |-> WritePartition(acc.files, p, res.merged),
                   inserted |-> acc.inserted + res.inserted,
                   updated |-> acc.updated + res.updated,
                   skipped |-> acc.skipped + res.skipped,
                   err |-> FALSE,
                   merges |-> Append(acc.merges, call) ])

\* what a call leaves and returns: outcome is "hit" (the stored receipt is returned),
\* "ok" (a fresh receipt), or the error raised
Outcome(o, report, fs, lines, merges) ==
    [outcome |-> o, report |-> report, files |-> fs, manifest |-> lines, merges |-> merges]

\* upsert_prices with the manifest check made after the partitions are merged
UpsertPricesLateCheck(rows, write_mode, idempotency_key, run_id, ts, fs, lines) ==
    LET found == _manifest_lookup(lines, idempotency_key)
        parts == SortedParts({ PartitionOf(rows[i]) : i \in DOMAIN rows })
        done == ProcessPartitions(parts, rows, write_mode,
                  [files |-> fs, inserted |-> 0, updated |-> 0, skipped |-> 0,
                   err |-> FALSE, merges |-> <<>>])
        report == StorageReport(run_id, idempotency_key, _infer_symbol(rows),
                    write_mode, Len(rows), done.inserted, done.updated,
                    done.skipped, ts)
    IN  IF found = JSONDecodeError
        THEN Outcome("manifest_error", None, fs, lines, <<>>)
        ELSE IF MissingPrimaryKey(rows) /\ found = None
        THEN Outcome("missing_pk", None, fs, lines, <<>>)
        ELSE IF done.err
        THEN Outcome("merge_error", None, done.files, lines, done.merges)
        ELSE IF found # None
        THEN Outcome("hit", _report_from_manifest(found), done.files, lines, done.merges)
        ELSE Outcome("ok", report, done.files,
                     _manifest_write(lines, idempotency_key, report), done.merges)

\* lines 89-155: group, merge and write each partition, build the receipt, record it
WriteRows(df_new, write_mode, idempotency_key, run_id, ts, fs, lines) ==
    LET parts == SortedParts({ PartitionOf(df_new[i]) : i \in DOMAIN df_new })
        done == ProcessPartitions(parts, df_new, write_mode,
                  [files |-> fs, inserted |-> 0, updated |-> 0, skipped |-> 0,
                   err |-> FALSE, merges |-> <<>>])
        report == StorageReport(run_id, idempotency_key, _infer_symbol(df_new),
                    write_mode, Len(df_new), done.inserted, done.updated,
                    done.skipped, ts)
    IN  IF done.err
        THEN Outcome("merge_error", None, done.files, lines, done.merges)
        ELSE IF ~check_counts(report)
        THEN Outcome("count_error", None, done.files, lines, done.merges)
        ELSE Outcome("ok", report, done.files,
                     _manifest_write(lines, idempotency_key, report), done.merges)

\* upsert_prices that records a receipt of no rows before it raises the input error
UpsertPricesRecordsInputError(rows, write_mode, idempotency_key, run_id, ts, fs, lines) ==
    LET found == _manifest_lookup(lines, idempotency_key)
    IN
    IF found = JSONDecodeError
    THEN Outcome("manifest_error", None, fs, lines, <<>>)
    ELSE IF found # None
    THEN Outcome("hit", _report_from_manifest(found), fs, lines, <<>>)
    ELSE IF MissingPrimaryKey(rows)
    THEN Outcome("missing_pk", None, fs,
                 _manifest_write(lines, idempotency_key,
                    StorageReport(run_id, idempotency_key, "UNKNOWN", write_mode,
                                  0, 0, 0, 0, ts)),
                 <<>>)
    ELSE WriteRows(rows, write_mode, idempotency_key, run_id, ts, fs, lines)

upsert_prices(rows, write_mode, idempotency_key, run_id, ts, fs, lines) ==
    LET found == _manifest_lookup(lines, idempotency_key)
    IN
    IF found = JSONDecodeError
    THEN Outcome("manifest_error", None, fs, lines, <<>>)
    ELSE IF found # None
    THEN Outcome("hit", _report_from_manifest(found), fs, lines, <<>>)
    ELSE IF MissingPrimaryKey(rows)
    THEN \* ValueError at line 87, before any partition is read
         Outcome("missing_pk", None, fs, lines, <<>>)
    ELSE WriteRows(rows, write_mode, idempotency_key, run_id, ts, fs, lines)

-----------------------------------------------------------------------------
(* PricesRepoParquet: the store that keeps all rows in one file *)

\* self.location of the single-file store
SingleLocation == "data/prices_daily.parquet"

\* _read_parquet: the rows of the file, or an empty frame when there is no file
_read_parquet(file) == IF file.exists THEN file.rows ELSE <<>>

\* _atomic_write_parquet: the frame is written to a temporary file that replaces the file
_atomic_write_parquet(merged) == [exists |-> TRUE, rows |-> merged]

\* what a call of the single-file store leaves and returns
SingleOutcome(o, report, file, lines) ==
    [outcome |-> o, report |-> report, file |-> file, manifest |-> lines]

\* PricesRepoParquet.upsert_prices: the idempotency check, the primary-key check, the
\* merge of the batch with the whole file, the write of the file, the receipt
PricesRepoParquet_upsert_prices(rows, write_mode, idempotency_key, run_id, ts, file, lines) ==
    LET found == _manifest_lookup(lines, idempotency_key)
        res == Merge(write_mode, _read_parquet(file), rows)
        report == [ StorageReport(run_id, idempotency_key, _infer_symbol(rows), write_mode,
                                  Len(rows), res.inserted, res.updated, res.skipped, ts)
                    EXCEPT !.location = SingleLocation ]
    IN  IF found = JSONDecodeError
        THEN SingleOutcome("manifest_error", None, file, lines)
        ELSE IF found # None
        THEN SingleOutcome("hit", _report_from_manifest(found), file, lines)
        ELSE IF MissingPrimaryKey(rows)
        THEN SingleOutcome("missing_pk", None, file, lines)
        ELSE IF res.err
        THEN SingleOutcome("merge_error", None, file, lines)
        ELSE IF ~check_counts(report)
        THEN SingleOutcome("count_error", None, _atomic_write_parquet(res.merged), lines)
        ELSE SingleOutcome("ok", report, _atomic_write_parquet(res.merged),
                           _manifest_write(lines, idempotency_key, report))

-----------------------------------------------------------------------------
(* JobSpec and PricesIngestionService.ingest_window *)

\* symbol.strip().upper() on the symbols callers pass
RawSymbols == {"A", " b"}

\* the symbol strings callers put into the symbols of a JobSpec
RawNames == {"A", "a", " a ", "B", " b", ""}

\* str.strip()
Strip(s) ==
    CASE s = " a " -> "a"
      [] s = " b" -> "b"
      [] OTHER -> s

\* str.upper()
Upper(s) ==
    CASE s = "a" -> "A"
      [] s = "b" -> "B"
      [] OTHER -> s

StripUpper(s) == Upper(Strip(s))

RECURSIVE FromKeys(_, _)
\* list(dict.fromkeys(vals)): the first occurrence of each value, in order
FromKeys(vals, seen) ==
    IF vals = <<>> THEN <<>>
    ELSE IF Head(vals) \in seen THEN FromKeys(Tail(vals), seen)
         ELSE <<Head(vals)>> \o FromKeys(Tail(vals), seen \cup {Head(vals)})

RECURSIVE Sorted(_)
\* sorted(vals) for a list without repeats
Sorted(vals) ==
    IF vals = <<>> THEN <<>>
    ELSE LET m == CHOOSE i \in DOMAIN vals :
                    \A j \in DOMAIN vals : SymRank(vals[i]) <= SymRank(vals[j])
         IN  <<vals[m]>> \o Sorted(SelectSeq(vals, LAMBDA x : x # vals[m]))

\* _norm_symbols without the sort
NormSymbolsUnsorted(v) ==
    FromKeys(SelectSeq([i \in DOMAIN v |-> StripUpper(v[i])], LAMBDA x : x # ""), {})

\* the validator of JobSpec.symbols: strip and upper-case each, drop the blank ones,
\* drop repeats, sort
_norm_symbols(v) ==
    Sorted(FromKeys(SelectSeq([i \in DOMAIN v |-> StripUpper(v[i])],
                              LAMBDA x : x # ""), {}))

\* the service's default_write_mode
DefaultWriteMode == "UPSERT"

\* the windows callers pass: <<date_from, date_to>>
Windows == { <<D1, D2>>, <<D1, D3>>, <<D2, D1>> }

JobSpec(syms, date_from, date_to, write_mode) ==
    [ source |-> "YFINANCE", engine |-> "PARQUET", location |-> Location,
      symbols |-> _norm_symbols(syms), date_from |-> date_from, date_to |-> date_to,
      write_mode |-> write_mode, primary_key |-> PrimaryKey, layout_version |-> 1 ]

\* _check_window: the window is valid
CheckWindow(spec) == ~DateLess(spec.date_to, spec.date_from)

\* the digest of the canonical payload; two payloads have one digest only if equal
idempotency_key(spec) ==
    << EnumValue(spec.source), EnumValue(spec.engine), spec.location, spec.symbols,
       spec.date_from, spec.date_to, EnumValue(spec.write_mode), spec.primary_key,
       spec.layout_version >>

\* the keys direct callers of the store pass
IdemKeys ==
    { idempotency_key(JobSpec(<<"A">>, D1, D2, "UPSERT")),
      idempotency_key(JobSpec(<<"B">>, D1, D3, "APPEND")) }

\* fetch_daily(sym, date_from, date_to): rows of sym in the closed window
FetchResults(sym, date_from, date_to) ==
    { b \in Batches : \A i \in DOMAIN b :
        /\ b[i].symbol = sym
        /\ ~DateLess(b[i].date, date_from)
        /\ ~DateLess(date_to, b[i].date) }

\* a fetched record: a row with the measures open, high and low that the rules read
RawRecord(r, open, high, low) == [row |-> r, open |-> open, high |-> high, low |-> low]

\* a record of a fetcher that supplies row r with open = high = low = close
RawOf(r) == RawRecord(r, r.close, r.close, r.close)

\* the records of a batch of such rows
RawBatch(b) == [i \in DOMAIN b |-> RawOf(b[i])]

\* records of sym that break one rule each: low > high, close > high, close < low,
\* open > high, open < low, a negative low, a negative adj_close
InvalidRecords(sym) ==
    { RawRecord(PriceRow(sym, D1, 10, 10), 10, 9, 11),
      RawRecord(PriceRow(sym, D1, 10, 10), 9, 9, 8),
      RawRecord(PriceRow(sym, D1, 10, 10), 12, 12, 11),
      RawRecord(PriceRow(sym, D1, 10, 10), 11, 10, 10),
      RawRecord(PriceRow(sym, D1, 10, 10), 9, 10, 10),
      RawRecord(PriceRow(sym, D1, 10, 10), 10, 10, -5),
      RawRecord(PriceRow(sym, D1, 10, -5), 10, 10, 10) }

\* the field constraints of PriceRow (ge=0); a NaN is not less than 0
FieldsOk(x) ==
    /\ x.open >= 0 /\ x.high >= 0 /\ x.low >= 0 /\ x.row.close >= 0
    /\ (IsNa(x.row.adj_close) \/ x.row.adj_close >= 0)

\* PriceRow.business_check: none of its four conditions raises
business_check(x) ==
    /\ ~(x.low > x.high)
    /\ x.low <= x.row.close /\ x.row.close <= x.high
    /\ x.low <= x.open /\ x.open <= x.high
    /\ ~(~IsNa(x.row.adj_close) /\ x.row.adj_close < 0)

\* validate_prices_batch: the rows of the records, or the error of the first record
\* that fails
validate_prices_batch(raw) ==
    IF \A i \in DOMAIN raw : FieldsOk(raw[i]) /\ business_check(raw[i])
    THEN [err |-> FALSE, rows |-> [i \in DOMAIN raw |-> raw[i].row]]
    ELSE [err |-> TRUE, rows |-> <<>>]

\* what fetch_daily(sym, date_from, date_to) can hand to the service: the records of
\* a batch of rows of sym in the window, or a batch with a record that breaks a
\* rule, alone, after or before a record that breaks none
FetchedRecords(sym, date_from, date_to) ==
    { RawBatch(b) : b \in FetchResults(sym, date_from, date_to) }
      \cup { <<x>> : x \in InvalidRecords(sym) }
      \cup { << RawOf(PriceRow(sym, D1, 10, 10)), RawRecord(PriceRow(sym, D1, 12, 10), 12, 11, 10) >>,
             << RawRecord(PriceRow(sym, D1, 12, 10), 12, 11, 10), RawOf(PriceRow(sym, D1, 10, 10)) >> }

\* whether the call reached self.fetcher.fetch_daily, and self.repo.upsert_prices
Fetch(called) == [fetch_called |-> called]

StoreCall(called) == [store_called |-> called]

\* ingest_window that fetches before it builds the JobSpec
IngestWindowFetchFirst(symbol, date_from, date_to, fetched, run_id, ts, fs, lines) ==
    LET sym == StripUpper(symbol)
        spec == JobSpec(<<sym>>, date_from, date_to, DefaultWriteMode)
        idem == idempotency_key(spec)
        rows_list == validate_prices_batch(fetched)
    IN  IF ~CheckWindow(spec)
        THEN Fetch(TRUE) @@ StoreCall(FALSE) @@
             Outcome("invalid_window", None, fs, lines, <<>>)
        ELSE IF fetched = <<>>
        THEN Fetch(TRUE) @@ StoreCall(FALSE) @@
             Outcome("empty",
                     StorageReport(run_id, idem, sym, DefaultWriteMode, 0, 0, 0, 0, ts),
                     fs, lines, <<>>)
        ELSE IF rows_list.err
        THEN Fetch(TRUE) @@ StoreCall(FALSE) @@
             Outcome("validation_error", None, fs, lines, <<>>)
        ELSE Fetch(TRUE) @@ StoreCall(TRUE) @@
             upsert_prices(rows_list.rows, DefaultWriteMode, idem, run_id, ts, fs, lines)

\* ingest_window that passes the fetched rows to the store as they come
IngestWindowNoValidation(symbol, date_from, date_to, fetched, run_id, ts, fs, lines) ==
    LET sym == StripUpper(symbol)
        spec == JobSpec(<<sym>>, date_from, date_to, DefaultWriteMode)
        idem == idempotency_key(spec)
    IN  IF ~CheckWindow(spec)
        THEN Fetch(FALSE) @@ StoreCall(FALSE) @@
             Outcome("invalid_window", None, fs, lines, <<>>)
        ELSE IF fetched = <<>>
        THEN Fetch(TRUE) @@ StoreCall(FALSE) @@
             Outcome("empty",
                     StorageReport(run_id, idem, sym, DefaultWriteMode, 0, 0, 0, 0, ts),
                     fs, lines, <<>>)
        ELSE Fetch(TRUE) @@ StoreCall(TRUE) @@
             upsert_prices([i \in DOMAIN fetched |-> fetched[i].row], DefaultWriteMode,
                           idem, run_id, ts, fs, lines)

ingest_window(symbol, date_from, date_to, fetched, run_id, ts, fs, lines) ==
    LET sym == StripUpper(symbol)
        spec == JobSpec(<<sym>>, date_from, date_to, DefaultWriteMode)
        idem == idempotency_key(spec)
        rows_list == validate_prices_batch(fetched)
    IN  IF ~CheckWindow(spec)
        THEN \* JobSpec(...) raises at line 73, before fetch_daily at line 89
             Fetch(FALSE) @@ StoreCall(FALSE) @@
             Outcome("invalid_window", None, fs, lines, <<>>)
        ELSE IF fetched = <<>>
        THEN Fetch(TRUE) @@ StoreCall(FALSE) @@
             Outcome("empty",
                     StorageReport(run_id, idem, sym, DefaultWriteMode, 0, 0, 0, 0, ts),
                     fs, lines, <<>>)
        ELSE IF rows_list.err
        THEN \* validate_prices_batch raises at line 90, before upsert_prices at 129
             Fetch(TRUE) @@ StoreCall(FALSE) @@
             Outcome("validation_error", None, fs, lines, <<>>)
        ELSE Fetch(TRUE) @@ StoreCall(TRUE) @@
             upsert_prices(rows_list.rows, DefaultWriteMode, idem, run_id, ts, fs, lines)

-----------------------------------------------------------------------------
(* The state machine.  files and manifest are the store; nCalls counts the  *)
(* calls made and gives each its run_id and clock reading.  last, prev and  *)
(* first record the calls for the properties: the last call and the one     *)
(* before it (arguments, result, the store before), and per idempotency key *)
(* the receipt its first completed write returned.                          *)

AllKeys ==
    IdemKeys \cup
    { idempotency_key(JobSpec(<<StripUpper(s)>>, w[1], w[2], DefaultWriteMode)) :
        s \in RawSymbols, w \in Windows }

NoCall ==
    [ op |-> "none", rows |-> <<>>, write_mode |-> "", idempotency_key |-> <<>>,
      symbol |-> "", window |-> <<>>, run_id |-> 0, outcome |-> "", report |-> None,
      merges |-> <<>>, files_before |-> [p \in Partitions |-> NoFile],
      manifest_before |-> <<>>, fetch_called |-> FALSE, store_called |-> FALSE,
      fetched |-> <<>> ]

Call(op, rows, write_mode, key, symbol, window, res, fetched) ==
    [ op |-> op, rows |-> rows, write_mode |-> write_mode, idempotency_key |-> key,
      symbol |-> symbol, window |-> window, run_id |-> nCalls + 1,
      outcome |-> res.outcome, report |-> res.report, merges |-> res.merges,
      files_before |-> files, manifest_before |-> manifest,
      fetch_called |-> IF op = "ingest" THEN res.fetch_called ELSE FALSE,
      store_called |-> IF op = "ingest" THEN res.store_called ELSE TRUE,
      fetched |-> fetched ]

\* the requests a pair of callers builds: symbols and window of each JobSpec
SymbolLists == UNION { [1..n -> RawNames] : n \in 0..MaxSymbols }

Requests == [symbols : SymbolLists, window : Windows]

\* a key not built yet
NoKey == <<>>

NoRequest ==
    [ a |-> [symbols |-> <<>>, window |-> <<>>], b |-> [symbols |-> <<>>, window |-> <<>>],
      keys |-> <<NoKey, NoKey>> ]

\* JobSpec(...).idempotency_key() for a request, or the ValueError of _check_window
KeyOf(r) ==
    LET spec == JobSpec(r.symbols, r.window[1], r.window[2], DefaultWriteMode)
    IN  IF CheckWindow(spec) THEN idempotency_key(spec) ELSE <<"ValueError">>

\* a date bound that is not given (None)
NoDate == <<>>

\* no result of a read at hand: none made yet, or a partition file changed since
NoRead ==
    [ symbol |-> "", limit |-> 0, date_from |-> NoDate, date_to |-> NoDate,
      outcome |-> "", rows |-> <<>> ]

\* no reader at work: no call of get_prices made yet
NoReader ==
    [ pc |-> "idle", symbol |-> "", limit |-> 0, date_from |-> NoDate, date_to |-> NoDate,
      partitions |-> <<>>, dfs |-> <<>>, outcome |-> "", rows |-> <<>>, calls |-> 0 ]

\* no pair of locations under comparison
NoPaths == [a |-> <<>>, b |-> <<>>, built |-> <<>>]

\* no store of a layer under observation
NoLake == [layer |-> "", disk |-> <<>>, source |-> ""]

\* no queue under observation
NoQueue ==
    [ self |-> [_q |-> <<>>, _seq |-> 0, _inflight |-> {}],
      before |-> [_q |-> <<>>, _seq |-> 0, _inflight |-> {}],
      op |-> "", message_id |-> "", ret |-> <<>>, raised |-> "",
      enqueued |-> <<>>, popped |-> <<>>, acked |-> {} ]

\* the single-file store before its first call: no file, no manifest line
NoSingle ==
    [file |-> NoFile, manifest |-> <<>>, outcome |-> "", report |-> None,
     file_before |-> NoFile]

\* the calls of one behaviour of StepSpec, numbered in the order they start
CallIds == 1..MaxCalls

\* the position and the locals of a call of upsert_prices that has not started
NotStarted ==
    [ pc |-> "idle", rows |-> <<>>, write_mode |-> "", idempotency_key |-> <<>>,
      run_id |-> 0, parts |-> <<>>, merged |-> <<>>, inserted |-> 0, updated |-> 0,
      skipped |-> 0, clobbered |-> FALSE, append_noop |-> FALSE, outcome |-> "",
      report |-> None, files_before |-> [p \in Partitions |-> NoFile], ended_before |-> {} ]

Init ==
    /\ files = [p \in Partitions |-> NoFile]
    /\ manifest = <<>>
    /\ nCalls = 0
    /\ last = NoCall
    /\ prev = NoCall
    /\ first = [k \in AllKeys |-> None]
    /\ calls = [c \in CallIds |-> NotStarted]
    /\ torn = {}
    /\ req = NoRequest
    /\ got = NoRead
    /\ paths = NoPaths
    /\ single = NoSingle
    /\ lake = NoLake
    /\ queue = NoQueue
    /\ reader = NoReader

RecordCall(call, key, res) ==
    /\ UNCHANGED <<calls, torn, req, paths, lake, queue, reader>>
    /\ got' = NoRead
    /\ files' = res.files
    /\ manifest' = res.manifest
    /\ nCalls' = nCalls + 1
    /\ prev' = last
    /\ last' = call
    /\ first' = IF res.outcome = "ok" /\ first[key] = None
                THEN [first EXCEPT ![key] = res.report]
                ELSE first

Record(call, key, res) == RecordCall(call, key, res) /\ UNCHANGED single

\* a caller of the store: upsert_prices(rows, write_mode=..., idempotency_key=...)
Write(rows, write_mode, key) ==
    /\ nCalls < MaxCalls
    /\ LET res == upsert_prices(rows, write_mode, key, nCalls + 1, nCalls + 1,
                                files, manifest)
       IN  Record(Call("write", rows, write_mode, key, "", <<>>, res, <<>>), key, res)

\* a caller of the service: ingest_window(symbol, date_from=..., date_to=...)
IngestWindow(symbol, w, fetched) ==
    /\ nCalls < MaxCalls
    /\ LET res == ingest_window(symbol, w[1], w[2], fetched, nCalls + 1, nCalls + 1,
                                files, manifest)
           key == idempotency_key(JobSpec(<<StripUpper(symbol)>>, w[1], w[2],
                                          DefaultWriteMode))
       IN  Record(Call("ingest", [i \in DOMAIN fetched |-> fetched[i].row], DefaultWriteMode,
                       key, symbol, w, res, fetched),
                  key, res)

Next ==
    \/ \E rows \in Batches, m \in WriteModes, k \in IdemKeys : Write(rows, m, k)
    \/ \E s \in RawSymbols, w \in Windows :
         \E fetched \in (IF DateLess(w[2], w[1]) THEN {<<>>}
                          ELSE FetchedRecords(StripUpper(s), w[1], w[2])) :
           IngestWindow(s, w, fetched)

Spec == Init /\ [][Next]_vars

-----------------------------------------------------------------------------
(* upsert_prices step by step.  A call reads the manifest, then for each    *)
(* partition of its batch reads the file, merges, opens the file for        *)
(* writing (which truncates it) and writes the merged frame into it, then   *)
(* reads the manifest again and appends its receipt.  Two calls may be      *)
(* under way at a time; a call may fail with an I/O error or its process    *)
(* may die between any two steps.  torn is the set of partition files that  *)
(* are not a complete parquet file: opened for writing and not yet, or      *)
(* never, written to the end.                                               *)

\* the batches the callers of the step-by-step writes supply: none, one row, the
\* same key with another value, one key twice, two partitions, and one key twice
\* with a second partition
StepBatches ==
    { <<>>,
      << PriceRow("A", D1, 10, 10) >>,
      << PriceRow("A", D1, 12, 10) >>,
      << PriceRow("A", D1, 10, 10), PriceRow("A", D1, 12, 10) >>,
      << PriceRow("A", D1, 10, 10), PriceRow("A", D3, 10, 10) >>,
      << PriceRow("A", D1, 10, 10), PriceRow("A", D1, 12, 10), PriceRow("A", D3, 10, 10) >> }

Running(c) == calls[c].pc \notin {"idle", "done"}

\* the partition file a call is working on
PartitionAt(c) == Head(calls[c].parts)

\* the call ends: it returned a receipt, raised, or its process died
End(call, outcome, report) ==
    [call EXCEPT !.pc = "done", !.outcome = outcome, !.report = report]

\* the writers that have the file of partition p open, other than c
OtherWriters(c, p) ==
    { d \in CallIds \ {c} : calls[d].pc = "write" /\ PartitionAt(d) = p }

\* lines 75-95: the idempotency check, _rows_to_df, the primary-key check, the grouping
StartWrite(rows, write_mode, key) ==
    /\ nCalls < MaxCalls
    /\ Cardinality({ c \in CallIds : Running(c) }) < 2
    /\ LET c == nCalls + 1
           found == _manifest_lookup(manifest, key)
           call == [ NotStarted EXCEPT
                       !.rows = rows, !.write_mode = write_mode,
                       !.idempotency_key = key, !.run_id = c,
                       !.files_before = files,
                       !.ended_before = { d \in CallIds : calls[d].pc = "done" } ]
       IN  calls' = [calls EXCEPT ![c] =
                IF found = JSONDecodeError THEN End(call, "manifest_error", None)
                ELSE IF found # None THEN End(call, "hit", _report_from_manifest(found))
                ELSE IF MissingPrimaryKey(rows) THEN End(call, "missing_pk", None)
                ELSE [call EXCEPT !.pc = "read",
                        !.parts = SortedParts({ PartitionOf(rows[i]) : i \in DOMAIN rows })]]
    /\ nCalls' = nCalls + 1
    /\ UNCHANGED <<files, manifest, torn, last, prev, first, req, got, paths, single, lake,
                   queue, reader>>

\* a read that waits until the partition file is a complete parquet file
ReadAndMergeWaitsForFile(c) ==
    /\ calls[c].pc = "read"
    /\ PartitionAt(c) \notin torn
    /\ LET p == PartitionAt(c)
           res == Merge(calls[c].write_mode, ReadPartition(files, p), GroupOf(calls[c].rows, p))
       IN  calls' = [calls EXCEPT ![c] =
                IF res.err THEN End(@, "merge_error", None)
                ELSE [@ EXCEPT !.pc = "open", !.merged = res.merged,
                        !.inserted = @ + res.inserted, !.updated = @ + res.updated,
                        !.skipped = @ + res.skipped]]
    /\ UNCHANGED <<files, manifest, torn, nCalls, last, prev, first, req, got, paths, single,
                   lake, queue, reader>>

\* lines 99-125: read the partition file if it exists, merge by write mode.  A file
\* that is not a complete parquet file makes read_parquet raise.
ReadAndMerge(c) ==
    /\ calls[c].pc = "read"
    /\ LET p == PartitionAt(c)
           res == Merge(calls[c].write_mode, ReadPartition(files, p), GroupOf(calls[c].rows, p))
       IN  calls' = [calls EXCEPT ![c] =
                IF p \in torn THEN End(@, "failed", None)
                ELSE IF res.err THEN End(@, "merge_error", None)
                ELSE [@ EXCEPT !.pc = "open", !.merged = res.merged,
                        !.inserted = @ + res.inserted, !.updated = @ + res.updated,
                        !.skipped = @ + res.skipped]]
    /\ UNCHANGED <<files, manifest, torn, nCalls, last, prev, first, req, got, paths, single, lake,
                   queue, reader>>

\* line 128, first half: to_parquet opens file_path for writing, which empties the
\* file in place
OpenPartitionFile(c) ==
    /\ calls[c].pc = "open"
    /\ LET p == PartitionAt(c)
       IN  /\ files' = WritePartition(files, p, <<>>)
           /\ torn' = torn \cup {p}
           /\ calls' = [d \in CallIds |->
                 IF d = c THEN [calls[c] EXCEPT !.pc = "write",
                                                !.clobbered = OtherWriters(c, p) # {}]
                 ELSE IF d \in OtherWriters(c, p) THEN [calls[d] EXCEPT !.clobbered = TRUE]
                 ELSE calls[d]]
    /\ got' = NoRead
    /\ UNCHANGED <<manifest, nCalls, last, prev, first, req, paths, single, lake,
                   queue, reader>>

\* lines 134-150: the receipt of a call that has written all its partitions
ReportOf(call) ==
    StorageReport(call.run_id, call.idempotency_key, _infer_symbol(call.rows),
                  call.write_mode, Len(call.rows), call.inserted, call.updated,
                  call.skipped, call.run_id)

\* to_parquet that closes the file without the rows of the merged frame
FinishPartitionFileDropsFrame(c, whole) ==
    /\ calls[c].pc = "write"
    /\ LET p == PartitionAt(c)
           complete == OtherWriters(c, p) = {} /\ (calls[c].clobbered => whole)
           rest == Tail(calls[c].parts)
           call == [calls[c] EXCEPT !.parts = rest, !.merged = <<>>, !.clobbered = FALSE]
       IN  /\ calls[c].clobbered \/ whole
           /\ files' = WritePartition(files, p, <<>>)
           /\ torn' = IF complete THEN torn \ {p} ELSE torn \cup {p}
           /\ calls' = [calls EXCEPT ![c] =
                 IF rest # <<>> THEN [call EXCEPT !.pc = "read"]
                 ELSE IF ~check_counts(ReportOf(call)) THEN End(call, "count_error", None)
                 ELSE [call EXCEPT !.pc = "manifest_lookup", !.report = ReportOf(call)]]
    /\ got' = NoRead
    /\ UNCHANGED <<manifest, nCalls, last, prev, first, req, paths, single, lake,
                   queue, reader>>

\* a write that records its receipt in the manifest after each partition file
FinishPartitionFileRecordsEarly(c, whole) ==
    /\ calls[c].pc = "write"
    /\ LET p == PartitionAt(c)
           complete == OtherWriters(c, p) = {} /\ (calls[c].clobbered => whole)
           rest == Tail(calls[c].parts)
           call == [calls[c] EXCEPT !.parts = rest, !.merged = <<>>, !.clobbered = FALSE]
       IN  /\ calls[c].clobbered \/ whole
           /\ files' = WritePartition(files, p, IF complete THEN calls[c].merged ELSE <<>>)
           /\ torn' = IF complete THEN torn \ {p} ELSE torn \cup {p}
           /\ manifest' = IF rest # <<>>
                          THEN Append(manifest, model_dump(ReportOf(call)))
                          ELSE manifest
           /\ calls' = [calls EXCEPT ![c] =
                 IF rest # <<>> THEN [call EXCEPT !.pc = "read"]
                 ELSE IF ~check_counts(ReportOf(call)) THEN End(call, "count_error", None)
                 ELSE [call EXCEPT !.pc = "manifest_lookup", !.report = ReportOf(call)]]
    /\ got' = NoRead
    /\ UNCHANGED <<nCalls, last, prev, first, req, paths, single, lake, queue, reader>>

\* line 128, second half: the merged frame is written to the end and the file closed;
\* lines 130-150 after the last partition.  While another writer has the same file
\* open the file stays incomplete; a file two writers wrote into at once ends as the
\* last writer's frame or as an unreadable mix (whole).
FinishPartitionFile(c, whole) ==
    /\ calls[c].pc = "write"
    /\ LET p == PartitionAt(c)
           complete == OtherWriters(c, p) = {} /\ (calls[c].clobbered => whole)
           rest == Tail(calls[c].parts)
           call == [calls[c] EXCEPT !.parts = rest, !.merged = <<>>, !.clobbered = FALSE]
       IN  /\ calls[c].clobbered \/ whole
           /\ files' = WritePartition(files, p, IF complete THEN calls[c].merged ELSE <<>>)
           /\ torn' = IF complete THEN torn \ {p} ELSE torn \cup {p}
           /\ calls' = [calls EXCEPT ![c] =
                 IF rest # <<>> THEN [call EXCEPT !.pc = "read"]
                 ELSE IF ~check_counts(ReportOf(call)) THEN End(call, "count_error", None)
                 ELSE [call EXCEPT !.pc = "manifest_lookup", !.report = ReportOf(call)]]
    /\ got' = NoRead
    /\ UNCHANGED <<manifest, nCalls, last, prev, first, req, paths, single, lake,
                   queue, reader>>

\* _manifest_write handing back the entry it found, and upsert_prices returning it
ManifestWriteLookupReturnsStored(c) ==
    /\ calls[c].pc = "manifest_lookup"
    /\ LET found == _manifest_lookup(manifest, calls[c].idempotency_key)
       IN  calls' = [calls EXCEPT ![c] =
                IF found = JSONDecodeError THEN End(@, "manifest_error", None)
                ELSE IF found # None
                THEN End([@ EXCEPT !.append_noop = TRUE], "ok", _report_from_manifest(found))
                ELSE [@ EXCEPT !.pc = "manifest_append"]]
    /\ UNCHANGED <<files, manifest, torn, nCalls, last, prev, first, req, got, paths, single, lake,
                   queue, reader>>

\* lines 355-359: _manifest_write looks the key up and returns if it is there
ManifestWriteLookup(c) ==
    /\ calls[c].pc = "manifest_lookup"
    /\ LET found == _manifest_lookup(manifest, calls[c].idempotency_key)
       IN  calls' = [calls EXCEPT ![c] =
                IF found = JSONDecodeError THEN End(@, "manifest_error", None)
                ELSE IF found # None
                THEN \* _manifest_write returns at line 359; upsert_prices returns report
                     End([@ EXCEPT !.append_noop = TRUE], "ok", @.report)
                ELSE [@ EXCEPT !.pc = "manifest_append"]]
    /\ UNCHANGED <<files, manifest, torn, nCalls, last, prev, first, req, got, paths, single, lake,
                   queue, reader>>

\* the manifest file opened for writing instead of appending: the line replaces it
AppendLineTruncating(lines, line) == <<line>>

\* the manifest file with one more line written to its end; after a line that was
\* cut short, which has no newline, the text joins that line
AppendLine(lines, line) ==
    IF lines # <<>> /\ lines[Len(lines)] = Malformed THEN lines ELSE Append(lines, line)

\* lines 362-365: the receipt is appended as one JSON line
ManifestWriteAppend(c) ==
    /\ calls[c].pc = "manifest_append"
    /\ manifest' = AppendLine(manifest, model_dump(calls[c].report))
    /\ calls' = [calls EXCEPT ![c] = End(@, "ok", @.report)]
    /\ UNCHANGED <<files, torn, nCalls, last, prev, first, req, got, paths, single, lake,
                   queue, reader>>

\* a storage I/O error (permission, disk full) raised by the read or the write of a
\* partition file, or the death of the process between two steps: the call ends
\* without a receipt and leaves the files as they are.  The call keeps the
\* partitions it had not finished.
Fail(c) ==
    /\ Running(c)
    /\ calls' = [calls EXCEPT ![c] = End(@, "failed", None)]
    /\ UNCHANGED <<files, manifest, torn, nCalls, last, prev, first, req, got, paths, single, lake,
                   queue, reader>>

\* the process dies while it writes its manifest line: part of the line is written
CrashMidAppend(c) ==
    /\ calls[c].pc = "manifest_append"
    /\ manifest' = AppendLine(manifest, Malformed)
    /\ calls' = [calls EXCEPT ![c] = End(@, "failed", None)]
    /\ UNCHANGED <<files, torn, nCalls, last, prev, first, req, got, paths, single, lake,
                   queue, reader>>

StepNext ==
    \/ \E rows \in StepBatches, m \in WriteModes, k \in IdemKeys : StartWrite(rows, m, k)
    \/ \E c \in CallIds : ReadAndMerge(c)
    \/ \E c \in CallIds : OpenPartitionFile(c)
    \/ \E c \in CallIds, whole \in BOOLEAN : FinishPartitionFile(c, whole)
    \/ \E c \in CallIds : ManifestWriteLookup(c)
    \/ \E c \in CallIds : ManifestWriteAppend(c)
    \/ \E c \in CallIds : Fail(c)
    \/ \E c \in CallIds : CrashMidAppend(c)

StepSpec == Init /\ [][StepNext]_vars

-----------------------------------------------------------------------------
(* The two implementations of PricesRepoAdapter side by side: every call   *)
(* is made with the same arguments on the partitioned store (files,        *)
(* manifest) and on the single-file store (single), both empty at first.   *)

\* the same upsert_prices call on both stores
WriteBoth(rows, write_mode, key) ==
    /\ nCalls < MaxCalls
    /\ LET res == upsert_prices(rows, write_mode, key, nCalls + 1, nCalls + 1,
                                files, manifest)
           one == PricesRepoParquet_upsert_prices(rows, write_mode, key, nCalls + 1,
                                                  nCalls + 1, single.file, single.manifest)
       IN  /\ RecordCall(Call("write", rows, write_mode, key, "", <<>>, res, <<>>), key, res)
           /\ single' = [file |-> one.file, manifest |-> one.manifest,
                          outcome |-> one.outcome, report |-> one.report,
                          file_before |-> single.file]

BothNext == \E rows \in Batches, m \in WriteModes, k \in IdemKeys : WriteBoth(rows, m, k)

BothSpec == Init /\ [][BothNext]_vars

-----------------------------------------------------------------------------
(* get_prices: the read of one symbol, while writers write.  got is what   *)
(* the last read was asked and returned, as long as no partition file has  *)
(* changed since.                                                          *)

\* the writes made while the store is read, each batch under the key of its request:
\* two partitions of one symbol, a second symbol, one key twice
ReadWrites ==
    { [ rows |-> << PriceRow("A", D1, 10, 10), PriceRow("A", D3, 10, 10) >>,
        key |-> idempotency_key(JobSpec(<<"A">>, D1, D2, "UPSERT")) ],
      [ rows |-> << PriceRow("A", D2, 10, 10), PriceRow("B", D1, 10, 10) >>,
        key |-> idempotency_key(JobSpec(<<"B">>, D1, D3, "APPEND")) ],
      [ rows |-> << PriceRow("A", D1, 10, 10), PriceRow("A", D1, 12, 10) >>,
        key |-> idempotency_key(JobSpec(<<"A">>, D1, D2, "UPSERT")) ] }

\* the symbols, limits and date bounds readers pass
ReadSymbols == {"a", "B"}

ReadLimits == {1, 2}

ReadBounds == {NoDate, D2}

\* list_partitions(layer, dataset, symbol): the data files under symbol=<SYMBOL>
list_partitions(fs, symbol) == { p \in Partitions : p[1] = Upper(symbol) /\ fs[p].exists }

\* lines 184-187: date >= date_from when given, date <= date_to when given
InWindow(r, date_from, date_to) ==
    /\ (date_from # NoDate => ~DateLess(r.date, date_from))
    /\ (date_to # NoDate => ~DateLess(date_to, r.date))

RECURSIVE ReadAll(_, _, _, _)
\* lines 179-196: the filtered frames of the partitions, concatenated
ReadAll(fs, parts, date_from, date_to) ==
    IF parts = <<>> THEN <<>>
    ELSE SelectSeq(fs[Head(parts)].rows, LAMBDA r : InWindow(r, date_from, date_to))
           \o ReadAll(fs, Tail(parts), date_from, date_to)

\* the orders sort_values("date", ascending=False) can give df: every order of its
\* rows with no date before a later one
DescOrders(df) ==
    { q \in [DOMAIN df -> DOMAIN df] :
        /\ \A i, j \in DOMAIN df : q[i] = q[j] => i = j
        /\ \A i, j \in DOMAIN df : i < j => ~DateLess(df[q[i]].date, df[q[j]].date) }

\* df.head(limit) of df taken in order q
HeadOf(df, q, limit) ==
    [i \in 1..(IF limit < Len(df) THEN limit ELSE Len(df)) |-> df[q[i]]]

ReadResult(outcome, rows) == [outcome |-> outcome, rows |-> rows]

\* get_prices that truncates the concatenated frame without sorting it
GetPricesUnsorted(fs, unreadable, symbol, limit, date_from, date_to) ==
    LET partitions == list_partitions(fs, symbol)
        df == ReadAll(fs, SortedParts(partitions), date_from, date_to)
    IN  IF partitions = {} THEN {ReadResult("ok", <<>>)}
        ELSE IF partitions \cap unreadable # {} THEN {ReadResult("read_error", <<>>)}
        ELSE {ReadResult("ok", HeadOf(df, [i \in DOMAIN df |-> i], limit))}

\* the results get_prices can return, or the error it raises: pd.read_parquet raises
\* on a partition file that is not a complete parquet file
get_prices(fs, unreadable, symbol, limit, date_from, date_to) ==
    LET partitions == list_partitions(fs, symbol)
        df == ReadAll(fs, SortedParts(partitions), date_from, date_to)
    IN  IF partitions = {} THEN {ReadResult("ok", <<>>)}
        ELSE IF partitions \cap unreadable # {} THEN {ReadResult("read_error", <<>>)}
        ELSE { ReadResult("ok", HeadOf(df, q, limit)) : q \in DescOrders(df) }

\* a reader: get_prices(symbol, limit, date_from, date_to)
GetPrices(symbol, limit, date_from, date_to) ==
    /\ \E res \in get_prices(files, torn, symbol, limit, date_from, date_to) :
         got' = [ symbol |-> symbol, limit |-> limit, date_from |-> date_from,
                  date_to |-> date_to, outcome |-> res.outcome, rows |-> res.rows ]
    /\ UNCHANGED <<files, manifest, nCalls, last, prev, first, calls, torn, req, paths, single, lake,
                   queue, reader>>

ReadNext ==
    \/ \E w \in ReadWrites : StartWrite(w.rows, DefaultWriteMode, w.key)
    \/ \E c \in CallIds : ReadAndMerge(c)
    \/ \E c \in CallIds : OpenPartitionFile(c)
    \/ \E c \in CallIds, whole \in BOOLEAN : FinishPartitionFile(c, whole)
    \/ \E c \in CallIds : ManifestWriteLookup(c)
    \/ \E c \in CallIds : ManifestWriteAppend(c)
    \/ \E c \in CallIds : Fail(c)
    \/ \E s \in ReadSymbols, n \in ReadLimits, df \in ReadBounds, dt \in ReadBounds :
         GetPrices(s, n, df, dt)

ReadSpec == Init /\ [][ReadNext]_vars

-----------------------------------------------------------------------------
(* The writes and the read as the steps a scheduler interleaves: each call *)
(* that runs keeps being scheduled until it returns or raises, and a call  *)
(* may fail or its process die at any step.                                *)

\* calls of get_prices in one behaviour
MaxReads == 1

\* the writes the scheduler interleaves, both under the key of one request: two
\* partitions of one symbol, and one key twice in the first of them
LiveWrites ==
    { [ rows |-> << PriceRow("A", D1, 10, 10), PriceRow("A", D3, 10, 10) >>,
        key |-> idempotency_key(JobSpec(<<"A">>, D1, D2, "UPSERT")) ],
      [ rows |-> << PriceRow("A", D1, 10, 10), PriceRow("A", D1, 12, 10) >>,
        key |-> idempotency_key(JobSpec(<<"A">>, D1, D2, "UPSERT")) ] }

\* the requests of the readers: every partition of a symbol, and a window
\* of another symbol
LiveReads ==
    { [symbol |-> "a", limit |-> 1, date_from |-> NoDate, date_to |-> NoDate],
      [symbol |-> "B", limit |-> 2, date_from |-> NoDate, date_to |-> D2] }

Reading == reader.pc \notin {"idle", "done"}

\* the reader ends: it returned rows or raised
EndRead(outcome, rows) ==
    [reader EXCEPT !.pc = "done", !.outcome = outcome, !.rows = rows,
                   !.partitions = <<>>, !.dfs = <<>>]

\* lines 173-176: the partition files of the symbol are listed; none, and the
\* call returns []
StartRead(symbol, limit, date_from, date_to) ==
    /\ ~Reading
    /\ reader.calls < MaxReads
    /\ LET partitions == list_partitions(files, symbol)
           call == [ NoReader EXCEPT
                       !.symbol = symbol, !.limit = limit, !.date_from = date_from,
                       !.date_to = date_to, !.calls = reader.calls + 1 ]
       IN  reader' = IF partitions = {}
                     THEN [call EXCEPT !.pc = "done", !.outcome = "ok"]
                     ELSE [call EXCEPT !.pc = "read",
                                       !.partitions = SortedParts(partitions)]
    /\ UNCHANGED <<files, manifest, nCalls, last, prev, first, calls, torn, req, got,
                   paths, single, lake, queue>>

\* lines 180-190, one turn of the loop: the next listed file is read and cut to the
\* window; read_parquet raises on a file that is not a complete parquet file
ReadPartitionFile ==
    /\ reader.pc = "read"
    /\ LET p == Head(reader.partitions)
           df == SelectSeq(files[p].rows,
                           LAMBDA r : InWindow(r, reader.date_from, reader.date_to))
           rest == Tail(reader.partitions)
       IN  reader' =
             IF p \in torn THEN EndRead("read_error", <<>>)
             ELSE [reader EXCEPT !.partitions = rest,
                                 !.dfs = @ \o df,
                                 !.pc = IF rest = <<>> THEN "combine" ELSE "read"]
    /\ UNCHANGED <<files, manifest, nCalls, last, prev, first, calls, torn, req, got,
                   paths, single, lake, queue>>

\* lines 192-206: [] when no frame is left, else the frames concatenated, sorted by
\* date descending, cut to limit
ReturnRows ==
    /\ reader.pc = "combine"
    /\ \E q \in DescOrders(reader.dfs) :
         reader' = EndRead("ok", HeadOf(reader.dfs, q, reader.limit))
    /\ UNCHANGED <<files, manifest, nCalls, last, prev, first, calls, torn, req, got,
                   paths, single, lake, queue>>

\* the steps the code of write call c takes by itself
WriteStep(c) ==
    \/ ReadAndMerge(c)
    \/ OpenPartitionFile(c)
    \/ \E whole \in BOOLEAN : FinishPartitionFile(c, whole)
    \/ ManifestWriteLookup(c)
    \/ ManifestWriteAppend(c)

\* the steps the code of the read takes by itself
ReadStep == ReadPartitionFile \/ ReturnRows

\* the reader fails: a storage I/O error raised by the read of a partition file
FailRead ==
    /\ Reading
    /\ reader' = EndRead("failed", <<>>)
    /\ UNCHANGED <<files, manifest, nCalls, last, prev, first, calls, torn, req, got,
                   paths, single, lake, queue>>

LiveNext ==
    \/ \E w \in LiveWrites : StartWrite(w.rows, DefaultWriteMode, w.key)
    \/ \E c \in CallIds : WriteStep(c)
    \/ \E c \in CallIds : Fail(c)
    \/ \E r \in LiveReads : StartRead(r.symbol, r.limit, r.date_from, r.date_to)
    \/ ReadStep
    \/ FailRead

\* upsert_prices and get_prices are synchronous calls: the thread of a call that has
\* started keeps running its next statement
LiveSpec ==
    /\ Init
    /\ [][LiveNext]_vars
    /\ \A c \in CallIds : WF_vars(WriteStep(c))
    /\ WF_vars(ReadStep)

-----------------------------------------------------------------------------
(* LakehousePaths: the data file of a (symbol, date) and the manifest file, *)
(* for two locations that are asked for in either order.  A path is the     *)
(* sequence of its segments under the base directory.                       *)

Layers == {"bronze", "silver"}

Datasets == {"prices_daily", "prices_monthly"}

\* the source a caller passes: none, or the name of a data source
NoSource == ""

Sources == {NoSource, "yfinance"}

PathSymbols == {"A", "a", "B"}

D4 == <<2025, 1, 1>>

PathDates == {D1, D2, D3, D4}

\* f"{month:02d}": the two digits of the month
TwoDigits(n) == <<n \div 10, n % 10>>

\* get_partition_path that keeps the symbol as it is spelled
GetPartitionPathKeepsCase(layer, dataset, symbol, dt, source) ==
    <<layer, dataset>>
      \o (IF layer = "bronze" /\ source # NoSource THEN <<"source", source>> ELSE <<>>)
      \o <<"symbol", symbol, "year", <<dt[1]>>, "month", TwoDigits(dt[2])>>

\* layer/dataset[/source=S]/symbol=SYMBOL/year=Y/month=MM; the source segment is
\* there in the bronze layer only, when a source is given
get_partition_path(layer, dataset, symbol, dt, source) ==
    <<layer, dataset>>
      \o (IF layer = "bronze" /\ source # NoSource THEN <<"source", source>> ELSE <<>>)
      \o <<"symbol", Upper(symbol), "year", <<dt[1]>>, "month", TwoDigits(dt[2])>>

get_data_file(layer, dataset, symbol, dt, source) ==
    get_partition_path(layer, dataset, symbol, dt, source) \o <<"data.parquet">>

\* _metadata/manifests/{layer}_{dataset}.jsonl
get_manifest_path(layer, dataset) == <<"_metadata", "manifests", <<layer, "_", dataset, ".jsonl">>>>

Locations ==
    [layer : Layers, dataset : Datasets, source : Sources, symbol : PathSymbols,
     date : PathDates]

\* a location not resolved yet
NoPath == [data |-> <<>>, manifest |-> <<>>]

PathInit ==
    /\ files = [p \in Partitions |-> NoFile]
    /\ manifest = <<>>
    /\ nCalls = 0
    /\ last = NoCall
    /\ prev = NoCall
    /\ first = [k \in AllKeys |-> None]
    /\ calls = [c \in CallIds |-> NotStarted]
    /\ torn = {}
    /\ req = NoRequest
    /\ got = NoRead
    /\ paths \in [a : Locations, b : Locations, built : {<<NoPath, NoPath>>}]
    /\ single = NoSingle
    /\ lake = NoLake
    /\ queue = NoQueue
    /\ reader = NoReader

\* a store resolves the data file and the manifest file of one of the locations
ResolvePaths(i) ==
    /\ paths # NoPaths
    /\ paths.built[i] = NoPath
    /\ LET l == IF i = 1 THEN paths.a ELSE paths.b
       IN  paths' = [paths EXCEPT !.built[i] =
                       [ data |-> get_data_file(l.layer, l.dataset, l.symbol, l.date, l.source),
                         manifest |-> get_manifest_path(l.layer, l.dataset) ]]
    /\ UNCHANGED <<files, manifest, nCalls, last, prev, first, calls, torn, req, got, single, lake,
                   queue, reader>>

PathNext == \E i \in {1, 2} : ResolvePaths(i)

PathSpec == PathInit /\ [][PathNext]_vars

-----------------------------------------------------------------------------
(* A store of one layer on the directory tree of LakehousePaths.  lake.disk *)
(* is the tree: the file at each data-file path.  A write resolves the      *)
(* files of its partitions with the source it was passed; a read lists the  *)
(* files under the directory of the symbol.                                 *)

\* the layers a store can be constructed for
StoreLayers == {"bronze", "silver", "gold"}

\* self.dataset
StoreDataset == "prices_daily"

\* lines 101-109: the file of a group (symbol, year, month) of a write
DataFileOf(layer, p, source) ==
    get_data_file(layer, StoreDataset, p[1], <<p[2], p[3], 1>>, source)

\* the data files writes of the model can create
DataFiles ==
    { DataFileOf(l, p, s) : l \in StoreLayers, p \in Partitions, s \in Sources }

\* base_path.rglob("data.parquet"): the data files below base_path
rglob(disk, base_path) ==
    { f \in DOMAIN disk :
        /\ disk[f].exists
        /\ Len(f) > Len(base_path)
        /\ SubSeq(f, 1, Len(base_path)) = base_path }

\* list_partitions(layer, dataset, symbol): the data files under symbol=<SYMBOL>, which
\* is looked for directly under the dataset directory
LakeListPartitions(disk, layer, dataset, symbol) ==
    rglob(disk, <<layer, dataset, "symbol", Upper(symbol)>>)

RECURSIVE SeqOf(_)
\* the listed files in the order the listing gives them
SeqOf(fs) ==
    IF fs = {} THEN <<>>
    ELSE LET f == CHOOSE x \in fs : TRUE IN <<f>> \o SeqOf(fs \ {f})

\* the tree as upsert_prices with this source sees it: the file of each partition
ViewOf(disk, layer, source) ==
    [p \in Partitions |-> disk[DataFileOf(layer, p, source)]]

\* get_prices on the tree: list, read every listed file, filter, sort, head
LakeGetPrices(disk, layer, symbol, limit, date_from, date_to) ==
    LET partitions == LakeListPartitions(disk, layer, StoreDataset, symbol)
        df == ReadAll(disk, SeqOf(partitions), date_from, date_to)
    IN  IF partitions = {} THEN {ReadResult("ok", <<>>)}
        ELSE { ReadResult("ok", HeadOf(df, q, limit)) : q \in DescOrders(df) }

\* the batches written to the store of a layer
LakeBatches ==
    { << PriceRow("A", D1, 10, 10), PriceRow("A", D3, 10, 10) >>,
      << PriceRow("A", D1, 12, 10) >>,
      << PriceRow("B", D1, 10, 10) >> }

\* limits that cut the rows of the model short, and that do not
LakeLimits == {1, 4}

LakeInit ==
    /\ files = [p \in Partitions |-> NoFile]
    /\ manifest = <<>>
    /\ nCalls = 0
    /\ last = NoCall
    /\ prev = NoCall
    /\ first = [k \in AllKeys |-> None]
    /\ calls = [c \in CallIds |-> NotStarted]
    /\ torn = {}
    /\ req = NoRequest
    /\ got = NoRead
    /\ paths = NoPaths
    /\ single = NoSingle
    /\ lake \in [layer : StoreLayers, disk : {[f \in DataFiles |-> NoFile]},
                  source : {NoSource}]
    /\ queue = NoQueue
    /\ reader = NoReader

\* upsert_prices(rows, ..., source=source) on the store of the layer
LakeWrite(rows, write_mode, key, source) ==
    /\ nCalls < MaxCalls
    /\ LET view == ViewOf(lake.disk, lake.layer, source)
           res == upsert_prices(rows, write_mode, key, nCalls + 1, nCalls + 1,
                                view, manifest)
       IN  /\ lake' = [ lake EXCEPT
                          !.source = source,
                          !.disk = [f \in DataFiles |->
                             IF \E p \in Partitions : f = DataFileOf(lake.layer, p, source)
                             THEN res.files[CHOOSE p \in Partitions :
                                              f = DataFileOf(lake.layer, p, source)]
                             ELSE lake.disk[f]] ]
           /\ manifest' = res.manifest
           /\ last' = [ Call("write", rows, write_mode, key, "", <<>>, res, <<>>)
                          EXCEPT !.files_before = view ]
    /\ prev' = last
    /\ nCalls' = nCalls + 1
    /\ got' = NoRead
    /\ UNCHANGED <<files, first, calls, torn, req, paths, single, queue, reader>>

\* get_prices(symbol, limit, date_from, date_to) on the store of the layer
LakeRead(symbol, limit, date_from, date_to) ==
    /\ \E res \in LakeGetPrices(lake.disk, lake.layer, symbol, limit, date_from, date_to) :
         got' = [ symbol |-> symbol, limit |-> limit, date_from |-> date_from,
                  date_to |-> date_to, outcome |-> res.outcome, rows |-> res.rows ]
    /\ UNCHANGED <<files, manifest, nCalls, last, prev, first, calls, torn, req, paths,
                   single, lake, queue, reader>>

LakeNext ==
    \/ \E rows \in LakeBatches, m \in WriteModes, k \in IdemKeys, s \in Sources :
         LakeWrite(rows, m, k, s)
    \/ \E s \in ReadSymbols, n \in LakeLimits, df \in ReadBounds, dt \in ReadBounds :
         LakeRead(s, n, df, dt)

LakeSpec == LakeInit /\ [][LakeNext]_vars

-----------------------------------------------------------------------------
(* The queue of job messages in memory (InMemoryQueueAdapter)              *)

\* enqueue calls accepted in one behaviour
MaxEnqueued == 3

\* a JobMessage, by the two attributes enqueue reads; "" is a missing value
QueueMessages == [job_id : {"", "j1", "j2"}, idempotency_key : {"", "k1"}]

\* no message handed over: the call takes none
NoMessage == [job_id |-> "", idempotency_key |-> ""]

\* f"m{self._seq}"
MidOf(seq) == "m" \o ToString(seq)

\* the message ids a caller may hand to ack: m0 is never issued
QueueIds == { MidOf(n) : n \in 0..MaxEnqueued }

\* the adapter after __init__
InMemoryQueueAdapter == [_q |-> <<>>, _seq |-> 0, _inflight |-> {}]

\* enqueue(msg): the adapter after the call, what it returned, what it raised
enqueue(self, msg) ==
    IF msg.job_id = "" \/ msg.idempotency_key = ""
    THEN [self |-> self, ret |-> <<>>, raised |-> "InvalidMessage"]
    ELSE LET mid == MidOf(self._seq + 1)
         IN  [ self |-> [self EXCEPT !._seq = self._seq + 1,
                                     !._q = Append(self._q, <<mid, msg>>)],
               ret |-> <<mid>>, raised |-> "" ]

\* a try_pop that takes the newest message (pop in place of popleft)
try_pop_newest(self) ==
    IF self._q = <<>>
    THEN [self |-> self, ret |-> <<>>, raised |-> ""]
    ELSE LET item == self._q[Len(self._q)]
         IN  [ self |-> [self EXCEPT !._q = SubSeq(self._q, 1, Len(self._q) - 1),
                                     !._inflight = self._inflight \cup {item[1]}],
               ret |-> item, raised |-> "" ]

\* try_pop(): None is the empty tuple
try_pop(self) ==
    IF self._q = <<>>
    THEN [self |-> self, ret |-> <<>>, raised |-> ""]
    ELSE LET item == Head(self._q)
         IN  [ self |-> [self EXCEPT !._q = Tail(self._q),
                                     !._inflight = self._inflight \cup {item[1]}],
               ret |-> item, raised |-> "" ]

\* ack(message_id)
ack(self, message_id) ==
    [ self |-> [self EXCEPT !._inflight = self._inflight \ {message_id}],
      ret |-> <<>>, raised |-> "" ]

\* ping()
ping(self) == [self |-> self, ret |-> <<TRUE>>, raised |-> ""]

QueueInit ==
    /\ files = [p \in Partitions |-> NoFile]
    /\ manifest = <<>>
    /\ nCalls = 0
    /\ last = NoCall
    /\ prev = NoCall
    /\ first = [k \in AllKeys |-> None]
    /\ calls = [c \in CallIds |-> NotStarted]
    /\ torn = {}
    /\ req = NoRequest
    /\ got = NoRead
    /\ paths = NoPaths
    /\ single = NoSingle
    /\ lake = NoLake
    /\ queue = [NoQueue EXCEPT !.self = InMemoryQueueAdapter,
                               !.before = InMemoryQueueAdapter, !.op = "__init__"]
    /\ reader = NoReader

\* one call on the adapter, and the record of what went in and what came out
QueueCall(op, msg, message_id, res) ==
    /\ queue' = [ queue EXCEPT
                    !.self = res.self, !.before = queue.self, !.op = op,
                    !.message_id = message_id, !.ret = res.ret, !.raised = res.raised,
                    !.enqueued = IF op = "enqueue" /\ res.raised = ""
                                 THEN Append(@, <<res.ret[1], msg>>) ELSE @,
                    !.popped = IF op = "try_pop" /\ res.ret # <<>>
                               THEN Append(@, res.ret) ELSE @,
                    !.acked = IF op = "ack" /\ message_id \in queue.self._inflight
                              THEN @ \cup {message_id} ELSE @ ]
    /\ UNCHANGED <<files, manifest, nCalls, last, prev, first, calls, torn, req, got,
                   paths, single, lake, reader>>

QueueEnqueue(msg) ==
    /\ queue.self._seq < MaxEnqueued
    /\ QueueCall("enqueue", msg, "", enqueue(queue.self, msg))

QueueTryPop == QueueCall("try_pop", NoMessage, "", try_pop(queue.self))

QueueAck(message_id) ==
    QueueCall("ack", NoMessage, message_id, ack(queue.self, message_id))

QueuePing == QueueCall("ping", NoMessage, "", ping(queue.self))

QueueNext ==
    \/ \E msg \in QueueMessages : QueueEnqueue(msg)
    \/ QueueTryPop
    \/ \E message_id \in QueueIds : QueueAck(message_id)
    \/ QueuePing

QueueSpec == QueueInit /\ [][QueueNext]_vars

-----------------------------------------------------------------------------
(* The idempotency keys of two requests, built in either order *)

KeyInit ==
    /\ files = [p \in Partitions |-> NoFile]
    /\ manifest = <<>>
    /\ nCalls = 0
    /\ last = NoCall
    /\ prev = NoCall
    /\ first = [k \in AllKeys |-> None]
    /\ calls = [c \in CallIds |-> NotStarted]
    /\ torn = {}
    /\ req \in [a : Requests, b : Requests, keys : {<<NoKey, NoKey>>}]
    /\ got = NoRead
    /\ paths = NoPaths
    /\ single = NoSingle
    /\ lake = NoLake
    /\ queue = NoQueue
    /\ reader = NoReader

\* one caller builds its JobSpec and takes its idempotency key
BuildKey(i) ==
    /\ req # NoRequest
    /\ req.keys[i] = NoKey
    /\ req' = [req EXCEPT !.keys[i] = KeyOf(IF i = 1 THEN req.a ELSE req.b)]
    /\ UNCHANGED <<files, manifest, nCalls, last, prev, first, calls, torn, got, paths, single, lake,
                   queue, reader>>

KeyNext == \E i \in {1, 2} : BuildKey(i)

KeySpec == KeyInit /\ [][KeyNext]_vars

-----------------------------------------------------------------------------
(* Properties *)

Returned(c) == c.outcome \in {"ok", "hit", "empty"}

\* two receipts that agree in every field but run_id
SameButRunId(r, q) == [r EXCEPT !.run_id = 0] = [q EXCEPT !.run_id = 0]

C2_HitChangesNothing ==
    last.outcome = "hit" =>
        /\ files = last.files_before
        /\ manifest = last.manifest_before
        /\ last.merges = <<>>

\* a replay in another mode with rows the store does not hold: applied, they would
\* change a partition
C2_Witness ==
    /\ last.op = "write"
    /\ last.outcome = "hit"
    /\ prev.outcome = "ok"
    /\ last.rows # <<>>
    /\ \A i \in DOMAIN last.rows :
         \A j \in DOMAIN files[PartitionOf(last.rows[i])].rows :
           files[PartitionOf(last.rows[i])].rows[j] # last.rows[i]

\* the same ingestion run twice from the empty store: the two calls made so far
\* are ingest_window calls of one symbol and window, with the same fetched rows
SameIngestionTwice ==
    /\ nCalls = 2
    /\ prev.op = "ingest" /\ last.op = "ingest"
    /\ StripUpper(prev.symbol) = StripUpper(last.symbol)
    /\ prev.window = last.window
    /\ prev.rows = last.rows
    /\ Returned(prev) /\ Returned(last)

MergeCountsAddUp(m) ==
    ~m.res.err =>
        /\ m.res.inserted >= 0 /\ m.res.updated >= 0 /\ m.res.skipped >= 0
        /\ m.res.inserted + m.res.updated + m.res.skipped = Len(m.df_new)

ReceiptCountsAddUp(r) ==
    /\ r.rows >= 0 /\ r.inserted >= 0 /\ r.updated >= 0 /\ r.skipped >= 0
    /\ r.rows = r.inserted + r.updated + r.skipped

\* C4: every merge that returns gives non-negative inserted, updated, skipped that
\* add up to the number of incoming rows of its partition; every receipt returned,
\* fresh or replayed, and every manifest line has rows = inserted + updated +
\* skipped; a fresh receipt has rows = the number of rows passed; building a receipt
\* never fails the count check.
C4_CountsAddUp ==
    /\ last.outcome # "count_error"
    /\ \A i \in DOMAIN last.merges : MergeCountsAddUp(last.merges[i])
    /\ Returned(last) => ReceiptCountsAddUp(last.report)
    /\ last.outcome = "ok" => last.report.rows = Len(last.rows)
    /\ \A i \in DOMAIN manifest : ReceiptCountsAddUp(manifest[i])

\* a fresh write over two partitions that inserts into one and updates the other
C4_Witness ==
    /\ last.outcome = "ok"
    /\ Len(last.merges) = 2
    /\ last.report.inserted = 1
    /\ last.report.updated = 1
    /\ last.report.rows = 2

\* the rows of a frame with key k, in frame order
RowsOfKey(df, k) == SelectSeq(df, LAMBDA r : Key(r) = k)

\* the number of rows of df that satisfy P
CountRows(df, P(_)) == Cardinality({ i \in DOMAIN df : P(df[i]) })

\* the merges of the last call made in write mode m that returned
MergesOf(m) ==
    { i \in DOMAIN last.merges :
        last.merges[i].write_mode = m /\ ~last.merges[i].res.err }

\* C5: no partition file holds two rows with the same primary key.
C5_NoDuplicatePrimaryKeys ==
    \A p \in Partitions :
      \A i, j \in DOMAIN files[p].rows :
        Key(files[p].rows[i]) = Key(files[p].rows[j]) => i = j

\* NULL-aware equality of the non-key columns of two rows
SameValues(n, o) ==
    \A c \in NonPkCols : (IsNa(n[c]) /\ IsNa(o[c])) \/ (~IsNa(n[c]) /\ ~IsNa(o[c]) /\ n[c] = o[c])

\* C6: an UPSERT counts as inserted the incoming rows whose key the existing
\* partition lacks, as updated those whose key is present with a non-key column
\* that differs from the existing row, as skipped those whose key is present with
\* all non-key columns equal.
C6_UpsertCountsClassify ==
    \A i \in MergesOf("UPSERT") :
      LET m == last.merges[i]
          present(r) == Key(r) \in KeySet(m.df_old)
          absent(r) == ~present(r)
          differs(r) == present(r) /\ \E j \in DOMAIN m.df_old :
                          Key(m.df_old[j]) = Key(r) /\ ~SameValues(r, m.df_old[j])
          equal(r) == present(r) /\ \E j \in DOMAIN m.df_old :
                          Key(m.df_old[j]) = Key(r) /\ SameValues(r, m.df_old[j])
      IN  /\ m.res.inserted = CountRows(m.df_new, absent)
          /\ m.res.updated = CountRows(m.df_new, differs)
          /\ m.res.skipped = CountRows(m.df_new, equal)

\* the rows of a frame, as a set
RowSet(df) == { df[i] : i \in DOMAIN df }

\* the rows of a frame whose key is not in ks, as a set
RowSetNotIn(df, ks) == { r \in RowSet(df) : Key(r) \notin ks }

\* C7: after an UPSERT the partition's row set is the existing rows whose key is
\* not in the batch, unchanged, plus for every key of the batch one row, which
\* carries incoming values.
C7_UpsertRowSet ==
    \A i \in MergesOf("UPSERT") :
      LET m == last.merges[i]
      IN  /\ RowSetNotIn(m.res.merged, KeySet(m.df_new)) = RowSetNotIn(m.df_old, KeySet(m.df_new))
          /\ \A k \in KeySet(m.df_new) :
                /\ Cardinality(RowSet(RowsOfKey(m.res.merged, k))) = 1
                /\ RowSet(RowsOfKey(m.res.merged, k)) \subseteq RowSet(m.df_new)

\* C8: an APPEND keeps every existing row with its values, stores rows of the batch
\* for exactly the incoming keys the existing partition lacks, and counts updated
\* = 0, inserted = the incoming rows with a new key, skipped = those with an
\* existing key.
C8_AppendNeverUpdates ==
    \A i \in MergesOf("APPEND") :
      LET m == last.merges[i]
          present(r) == Key(r) \in KeySet(m.df_old)
          absent(r) == ~present(r)
      IN  /\ m.res.updated = 0
          /\ m.res.inserted = CountRows(m.df_new, absent)
          /\ m.res.skipped = CountRows(m.df_new, present)
          /\ RowSet(RowsIn(m.res.merged, KeySet(m.df_old))) = RowSet(m.df_old)
          /\ KeySet(m.res.merged) = KeySet(m.df_old) \cup KeySet(m.df_new)
          /\ RowSetNotIn(m.res.merged, KeySet(m.df_old)) \subseteq RowSet(m.df_new)

\* C9: an INSERT_OVERWRITE replaces the existing rows whose key is in the batch by
\* incoming rows, keeps the other existing rows unchanged, and counts inserted =
\* the number of incoming rows, updated = 0, skipped = 0.
C9_OverwriteIsWindowed ==
    \A i \in MergesOf("INSERT_OVERWRITE") :
      LET m == last.merges[i]
      IN  /\ m.res.inserted = Len(m.df_new)
          /\ m.res.updated = 0
          /\ m.res.skipped = 0
          /\ RowSetNotIn(m.res.merged, KeySet(m.df_new)) = RowSetNotIn(m.df_old, KeySet(m.df_new))
          /\ KeySet(m.df_new) \subseteq KeySet(m.res.merged)
          /\ RowSet(RowsIn(m.res.merged, KeySet(m.df_new))) \subseteq RowSet(m.df_new)

\* the last row of df with key k
LastOfKey(df, k) == RowsOfKey(df, k)[Len(RowsOfKey(df, k))]

\* C10: in every write mode, for a key the batch repeats, the rows of that key the
\* merged partition holds are the batch's last row of the key (for APPEND: when the
\* existing partition lacks the key).
C10_LastOccurrenceWins ==
    \A i \in DOMAIN last.merges :
      LET m == last.merges[i]
      IN  ~m.res.err =>
            \A k \in KeySet(m.df_new) :
              (Len(RowsOfKey(m.df_new, k)) > 1
                 /\ (m.write_mode = "APPEND" => k \notin KeySet(m.df_old)))
              => RowSet(RowsOfKey(m.res.merged, k)) = {LastOfKey(m.df_new, k)}

\* the last call passed, or fetched, no rows under a key the manifest did not hold
EmptyWrite ==
    /\ last.op \in {"write", "ingest"}
    /\ last.rows = <<>>
    /\ last.outcome # "invalid_window"
    /\ _manifest_lookup(last.manifest_before, last.idempotency_key) = None

\* C14: a write of no rows is a valid no-op: it returns a receipt with rows =
\* inserted = updated = skipped = 0 and changes no partition file.
C14_EmptyWriteIsNoOp ==
    EmptyWrite =>
        /\ Returned(last)
        /\ last.report.rows = 0 /\ last.report.inserted = 0
        /\ last.report.updated = 0 /\ last.report.skipped = 0
        /\ files = last.files_before

\* C15: after a write of no rows, or an ingestion whose fetch returned none, the
\* manifest holds an entry for the request's idempotency key.
C15_EmptyWriteIsRecorded ==
    EmptyWrite => _manifest_lookup(manifest, last.idempotency_key) # None

\* C17: a write without a manifest hit whose rows lack a primary-key column fails
\* with the input error and leaves every partition file and the manifest as they
\* were: the manifest holds no entry for the key.
C17_MissingKeyColumnChangesNothing ==
    (last.op = "write" /\ MissingPrimaryKey(last.rows)
       /\ _manifest_lookup(last.manifest_before, last.idempotency_key) = None)
    => /\ last.outcome = "missing_pk"
       /\ files = last.files_before
       /\ manifest = last.manifest_before
       /\ _manifest_lookup(manifest, last.idempotency_key) = None

\* such a write on a store that holds a partition file and a manifest entry
C17_Witness ==
    /\ last.op = "write"
    /\ MissingPrimaryKey(last.rows)
    /\ last.outcome = "missing_pk"
    /\ prev.outcome = "ok"
    /\ Len(manifest) = 1
    /\ \E p \in Partitions : files[p].exists

\* C18: an ingestion with date_from > date_to is rejected when its JobSpec is built:
\* the fetcher is not called, no partition is merged, and files and manifest are as
\* they were.
C18_InvalidWindowRejectedEarly ==
    (last.op = "ingest" /\ DateLess(last.window[2], last.window[1]))
    => /\ last.outcome = "invalid_window"
       /\ ~last.fetch_called
       /\ last.merges = <<>>
       /\ files = last.files_before
       /\ manifest = last.manifest_before

\* such an ingestion on a store that holds a partition file and a manifest entry
C18_Witness ==
    /\ last.op = "ingest"
    /\ DateLess(last.window[2], last.window[1])
    /\ last.outcome = "invalid_window"
    /\ prev.op = "ingest" /\ prev.outcome = "ok"
    /\ Len(manifest) = 1
    /\ \E p \in Partitions : files[p].exists

\* the rules for one fetched record: no measure is negative (a NaN adj_close is not
\* counted as negative), low <= high, low <= close <= high, low <= open <= high
RulesHold(x) ==
    /\ x.open >= 0 /\ x.high >= 0 /\ x.low >= 0 /\ x.row.close >= 0
    /\ (IsNa(x.row.adj_close) \/ x.row.adj_close >= 0)
    /\ x.low <= x.high
    /\ x.low <= x.row.close /\ x.row.close <= x.high
    /\ x.low <= x.open /\ x.open <= x.high

ReadPartitionBefore(j) == ReadPartition(last.files_before, last.merges[j].partition)

\* the partitions the merges of the last call were made into
MergedInto == { last.merges[j].partition : j \in DOMAIN last.merges }

\* C29: every row held in the partition file of (symbol, year, month) has that
\* symbol and a date of that year and month; a write merges into a partition file
\* exactly the rows of the batch that belong to it, merges into each partition file
\* once, reaches the partition of every row of the batch when no merge raises, and
\* leaves every other partition file as it was.
C29_RowsLieInOwnPartition ==
    /\ \A p \in Partitions : \A i \in DOMAIN files[p].rows :
           PartitionOf(files[p].rows[i]) = p
    /\ \A j \in DOMAIN last.merges :
           /\ last.merges[j].df_new = GroupOf(last.rows, last.merges[j].partition)
           /\ last.merges[j].df_new # <<>>
           /\ last.merges[j].df_old = ReadPartitionBefore(j)
           /\ \A k \in DOMAIN last.merges :
                  last.merges[k].partition = last.merges[j].partition => k = j
    /\ last.outcome = "ok" =>
           \A i \in DOMAIN last.rows : PartitionOf(last.rows[i]) \in MergedInto
    /\ \A p \in Partitions \ MergedInto : files[p] = last.files_before[p]

\* a write of rows of two partitions onto a store that holds rows in one of them and
\* in a third
C29_Witness ==
    /\ last.outcome = "ok"
    /\ Len(last.merges) = 2
    /\ \E j \in DOMAIN last.merges : last.merges[j].df_old # <<>>
    /\ \E p \in Partitions \ MergedInto : files[p].exists

\* the partitions of the rows the last call passed to the store
IncomingPartitions == { PartitionOf(last.rows[i]) : i \in DOMAIN last.rows }

\* C31: a write leaves every partition file as it was unless some incoming row
\* belongs to its partition, whatever the outcome of the write: the files of other
\* symbols and of other months keep their rows, and no merge of the write reads or
\* writes such a file.
C31_OtherPartitionsUntouched ==
    last.op # "none" =>
        /\ \A p \in Partitions \ IncomingPartitions : files[p] = last.files_before[p]
        /\ \A j \in DOMAIN last.merges : last.merges[j].partition \in IncomingPartitions

\* a write into one partition of a store that holds rows of another symbol and rows
\* of another month of the same symbol
C31_Witness ==
    /\ last.outcome = "ok"
    /\ IncomingPartitions = {<<"A", 2024, 1>>}
    /\ files[<<"A", 2024, 1>>] # last.files_before[<<"A", 2024, 1>>]
    /\ files[<<"A", 2024, 2>>].rows # <<>>
    /\ files[<<"B", 2024, 1>>].rows # <<>>

-----------------------------------------------------------------------------
(* Properties of the step-by-step writes *)

\* C11: at every point of a write, and after a failure or the death of the process
\* at any point of it, every partition file is a complete file: none is partially
\* written.
C11_PartitionFilesAreWhole == torn = {}

\* the manifest lines that are receipts
Entries == { i \in DOMAIN manifest : manifest[i] # Malformed }

\* C12: the manifest holds at most one entry per idempotency key, also after the
\* appends of callers that run at once or retry with the same key.
C12_OneEntryPerKey ==
    \A i, j \in Entries :
      manifest[i].idempotency_key = manifest[j].idempotency_key => i = j

\* C13: a malformed manifest line makes no lookup and no write fail: no call ends
\* with the decode error, and a call whose key has an entry, written by a call that
\* ended before it started, finds that entry.
C13_LookupSkipsMalformed ==
    \A c \in CallIds :
      calls[c].pc = "done" =>
        /\ calls[c].outcome # "manifest_error"
        /\ \A i \in Entries :
             (manifest[i].idempotency_key = calls[c].idempotency_key
                /\ manifest[i].run_id \in calls[c].ended_before)
             => calls[c].outcome = "hit"

\* what one write of call c's batch that meets no failure makes of the store call c
\* found
SingleWrite(c) ==
    WriteRows(calls[c].rows, calls[c].write_mode, calls[c].idempotency_key, 0, 0,
              calls[c].files_before, <<>>)

\* two stores whose partition files hold the same rows
SameContent(fs, gs) ==
    \A p \in Partitions :
      /\ fs[p].exists = gs[p].exists
      /\ RowSet(fs[p].rows) = RowSet(gs[p].rows)

SameRequest(c, d) ==
    /\ calls[c].idempotency_key = calls[d].idempotency_key
    /\ calls[c].rows = calls[d].rows
    /\ calls[c].write_mode = calls[d].write_mode

\* call d is a retry that succeeded of call c, which failed at a partition
RetrySucceeded(c, d) ==
    /\ calls[c].pc = "done" /\ calls[c].outcome = "failed" /\ calls[c].parts # <<>>
    /\ c \in calls[d].ended_before
    /\ SameRequest(c, d)
    /\ calls[d].pc = "done" /\ calls[d].outcome = "ok"

\* C19: a write that failed at a partition has recorded no manifest entry, its retry
\* with the same request merges again, and once the retry has succeeded every
\* partition file holds what a single write of the batch that meets no failure
\* would have left.
C19_RetryAfterFailureIsSafe ==
    \A c, d \in CallIds :
      RetrySucceeded(c, d) =>
        /\ \A i \in Entries : manifest[i].run_id # calls[c].run_id
        /\ calls[d].report.run_id = calls[d].run_id
        /\ torn = {}
        /\ SingleWrite(c).outcome = "ok"
        /\ SameContent(files, SingleWrite(c).files)

\* calls c and d raced with one request: both missed the manifest and both completed
RaceCompleted(c, d) ==
    /\ c < d
    /\ SameRequest(c, d)
    /\ calls[c].pc = "done" /\ calls[c].outcome = "ok"
    /\ calls[d].pc = "done" /\ calls[d].outcome = "ok"

\* C20: when two callers race with one idempotency key and both miss the manifest,
\* after both have completed every partition file holds what a single write of the
\* batch would have left.
C20_RaceAppliesOneSet ==
    \A c, d \in CallIds :
      RaceCompleted(c, d) =>
        /\ torn = {}
        /\ SameContent(files, SingleWrite(c).files)

\* call c raced with call d on one idempotency key, both missed the manifest at the
\* start, and c found d's entry when it came to append its own
AppendWasNoOp(c, d) ==
    /\ c # d
    /\ calls[c].pc = "done" /\ calls[c].outcome = "ok" /\ calls[c].append_noop
    /\ calls[d].pc = "done" /\ calls[d].outcome = "ok" /\ ~calls[d].append_noop
    /\ calls[c].idempotency_key = calls[d].idempotency_key

\* C21: in the race on one key, the caller whose manifest append is a no-op returns
\* the receipt it computed itself, with its own run_id, not the entry the manifest
\* holds, and both returned receipts have rows = inserted + updated + skipped.
C21_NoOpAppendReturnsOwnReceipt ==
    \A c, d \in CallIds :
      AppendWasNoOp(c, d) =>
        /\ calls[c].report = ReportOf(calls[c])
        /\ calls[c].report.run_id = calls[c].run_id
        /\ calls[c].report.run_id # calls[d].report.run_id
        /\ \A i \in Entries : manifest[i].run_id # calls[c].run_id
        /\ ReceiptCountsAddUp(calls[c].report)
        /\ ReceiptCountsAddUp(calls[d].report)

\* the two callers passed different batches, so their receipts differ in the counts
C21_Witness ==
    \E c, d \in CallIds :
      /\ AppendWasNoOp(c, d)
      /\ calls[c].report.rows # calls[d].report.rows
      /\ \E i \in Entries : manifest[i].run_id = calls[d].run_id

\* the lookup of key k finds an entry
Written(lines, k) == _manifest_lookup(lines, k) \notin {None, JSONDecodeError}

\* C22: per idempotency key the state moves from UNSEEN to WRITTEN only: no step
\* removes or alters a manifest line, the lookup of a key that has an entry returns
\* that entry after every later step, and a write that starts with such a key
\* returns that entry as its receipt.
C22_WrittenIsTerminal ==
    [][ /\ \A i \in DOMAIN manifest : i \in DOMAIN manifest' /\ manifest'[i] = manifest[i]
        /\ \A k \in AllKeys :
              Written(manifest, k) => _manifest_lookup(manifest', k) = _manifest_lookup(manifest, k)
        /\ \A c \in CallIds :
              (calls[c].pc = "idle" /\ calls'[c].pc # "idle"
                 /\ Written(manifest, calls'[c].idempotency_key))
              => /\ calls'[c].outcome = "hit"
                 /\ calls'[c].report =
                      _report_from_manifest(_manifest_lookup(manifest, calls'[c].idempotency_key))
      ]_vars

\* a write was answered from the manifest with the entry of an earlier call that
\* passed other rows, and the manifest holds that one entry still
C22_Witness ==
    \E c, d \in CallIds :
      /\ calls[c].pc = "done" /\ calls[c].outcome = "ok"
      /\ calls[d].pc = "done" /\ calls[d].outcome = "hit"
      /\ calls[d].rows # calls[c].rows
      /\ calls[d].report.run_id = calls[c].run_id
      /\ Len(manifest) = 1 /\ manifest[1].run_id = calls[c].run_id

\* the call ended, by an error or the death of its process, before it had written
\* the last of its partition files
EndedBeforeLastWrite(c) == calls[c].pc = "done" /\ calls[c].parts # <<>>

\* the entries of the manifest under key k
EntriesOf(k) == { i \in Entries : manifest[i].idempotency_key = k }

\* C30: every manifest entry was appended by an execution that has no partition
\* write pending: the execution that recorded it ran under the key of the entry,
\* has written all its partition files and has returned the entry as its receipt.
\* An execution that ended before its last partition write has no entry of its
\* own, and its key has no entry unless another execution under the same key,
\* with all its partition writes done, recorded one.
C30_EntryAfterAllPartitionWrites ==
    /\ \A i \in Entries :
          /\ manifest[i].run_id \in CallIds
          /\ LET c == manifest[i].run_id
             IN  /\ calls[c].idempotency_key = manifest[i].idempotency_key
                 /\ calls[c].parts = <<>>
                 /\ calls[c].pc = "done" /\ calls[c].outcome = "ok"
                 /\ manifest[i] = model_dump(calls[c].report)
    /\ \A c \in CallIds :
          EndedBeforeLastWrite(c) =>
             /\ \A i \in Entries : manifest[i].run_id # c
             /\ (\A d \in CallIds \ {c} :
                    calls[d].idempotency_key = calls[c].idempotency_key
                    => calls[d].parts # <<>> \/ calls[d].outcome # "ok")
                => EntriesOf(calls[c].idempotency_key) = {}

\* a write of two partitions ended after it had written the first and before it
\* had written the second, on a store whose manifest holds the entry of another key
C30_Witness ==
    \E c \in CallIds :
      /\ EndedBeforeLastWrite(c)
      /\ Len(calls[c].parts) = 1
      /\ \E i \in DOMAIN calls[c].rows :
            /\ PartitionOf(calls[c].rows[i]) # Head(calls[c].parts)
            /\ files[PartitionOf(calls[c].rows[i])] # calls[c].files_before[PartitionOf(calls[c].rows[i])]
      /\ EntriesOf(calls[c].idempotency_key) = {}
      /\ Entries # {}

-----------------------------------------------------------------------------
(* Properties of the two stores side by side *)

\* the rows the partitioned store holds, over all its partition files
StoredRows == UNION { RowSet(files[p].rows) : p \in Partitions }

\* C28: after every sequence of the same writes on both stores, both empty at
\* first, the last write returned a receipt from both or from neither, the two
\* receipts have the same rows, inserted, updated and skipped, and the two stores
\* hold the same set of rows.
C28_StoresAgree ==
    last.op = "write" =>
        /\ (single.report = None) <=> (last.report = None)
        /\ last.report # None =>
              /\ single.report.rows = last.report.rows
              /\ single.report.inserted = last.report.inserted
              /\ single.report.updated = last.report.updated
              /\ single.report.skipped = last.report.skipped
        /\ RowSet(single.file.rows) = StoredRows

-----------------------------------------------------------------------------
(* Properties of the store of a layer *)

\* the last write stored row r: the frame it wrote to the partition file of r holds r
StoredByLast(r) ==
    \E j \in DOMAIN last.merges :
      /\ last.merges[j].partition = PartitionOf(r)
      /\ ~last.merges[j].res.err
      /\ r \in RowSet(last.merges[j].res.merged)

\* C32: after a write that returned a fresh receipt, a read of a symbol that limit
\* does not cut short returns every row of that symbol the write stored whose date
\* passes the date bounds of the read, in every layer and for every source passed
\* to the write.
C32_ReadYourWrites ==
    (last.outcome = "ok" /\ got.outcome = "ok" /\ Len(got.rows) < got.limit) =>
        \A i \in DOMAIN last.rows :
           ( /\ StoredByLast(last.rows[i])
             /\ last.rows[i].symbol = Upper(got.symbol)
             /\ InWindow(last.rows[i], got.date_from, got.date_to) )
           => last.rows[i] \in RowSet(got.rows)

\* no two rows of the frame have the same primary key
DuplicateFree(df) == \A i, j \in DOMAIN df : Key(df[i]) = Key(df[j]) => i = j

\* the last two writes passed the same duplicate-free batch in UPSERT mode under two
\* different idempotency keys, and both returned a fresh receipt
SameUpsertTwice ==
    /\ prev.op = "write" /\ last.op = "write"
    /\ prev.write_mode = "UPSERT" /\ last.write_mode = "UPSERT"
    /\ prev.rows = last.rows /\ DuplicateFree(last.rows)
    /\ prev.idempotency_key # last.idempotency_key
    /\ prev.outcome = "ok"

\* the counts of a receipt that skipped every row of the batch
AllSkipped(report, rows) ==
    /\ report # None
    /\ report.rows = Len(rows)
    /\ report.inserted = 0 /\ report.updated = 0 /\ report.skipped = Len(rows)

\* C33: when the same duplicate-free batch is written twice in UPSERT mode under two
\* different idempotency keys, the second write returns a fresh receipt with
\* inserted = 0, updated = 0 and skipped = rows and leaves every partition file with
\* the rows it had after the first write; so does the single-file store with its
\* one file.
C33_UpsertTwiceSkipsAll ==
    SameUpsertTwice =>
        /\ last.outcome = "ok"
        /\ AllSkipped(last.report, last.rows)
        /\ \A p \in Partitions :
              /\ files[p].exists = last.files_before[p].exists
              /\ RowSet(files[p].rows) = RowSet(last.files_before[p].rows)
              /\ Len(files[p].rows) = Len(last.files_before[p].rows)
        /\ single.outcome = "ok"
        /\ AllSkipped(single.report, last.rows)
        /\ RowSet(single.file.rows) = RowSet(single.file_before.rows)
        /\ Len(single.file.rows) = Len(single.file_before.rows)

\* a batch of two rows of two partitions, one of them with a NaN, written twice
C33_Witness ==
    /\ SameUpsertTwice
    /\ Len(last.rows) = 2
    /\ Len(last.merges) = 2
    /\ \E i \in DOMAIN last.rows : IsNa(last.rows[i].adj_close)
    /\ last.report.skipped = 2
    /\ Len(manifest) = 2

-----------------------------------------------------------------------------
(* Properties of the rows stored and the receipts recorded *)

RECURSIVE SumInserted(_)
\* the sum of inserted over the manifest entries at the lines is
SumInserted(is) ==
    IF is = {} THEN 0
    ELSE LET i == CHOOSE x \in is : TRUE
         IN  manifest[i].inserted + SumInserted(is \ {i})

RECURSIVE SumRows(_)
\* the number of rows the partition files ps hold
SumRows(ps) ==
    IF ps = {} THEN 0
    ELSE LET p == CHOOSE x \in ps : TRUE
         IN  Len(files[p].rows) + SumRows(ps \ {p})

Started(c) == calls[c].pc # "idle"

\* no write is in progress, the writes so far ran one after another, and each used
\* UPSERT or APPEND with a batch that repeats no primary key
SequenceOfConservingWrites ==
    /\ \A c \in CallIds : ~Running(c)
    /\ \A c, d \in CallIds : (c < d /\ Started(d)) => c \in calls[d].ended_before
    /\ \A c \in CallIds :
          Started(c) => /\ calls[c].write_mode \in {"UPSERT", "APPEND"}
                        /\ DuplicateFree(calls[c].rows)

\* every write so far returned a receipt, fresh or replayed, or was rejected for its
\* input before it touched a file
EveryWriteReturned ==
    \A c \in CallIds : Started(c) => calls[c].outcome \in {"ok", "hit", "missing_pk"}

-----------------------------------------------------------------------------
(* Properties of the reads *)

RECURSIVE RowsOfParts(_, _)
\* the rows of the partition files parts, one file after the other
RowsOfParts(fs, parts) ==
    IF parts = <<>> THEN <<>> ELSE fs[Head(parts)].rows \o RowsOfParts(fs, Tail(parts))

\* date_from <= r.date <= date_to, for the bounds that are given
Within(r, date_from, date_to) ==
    /\ (date_from = NoDate \/ date_from = r.date \/ DateLess(date_from, r.date))
    /\ (date_to = NoDate \/ date_to = r.date \/ DateLess(r.date, date_to))

\* the rows of the store that the read got reports was to choose from: those of its
\* symbol, whatever file holds them, that pass its date filter
Candidates ==
    SelectSeq(RowsOfParts(files, SortedParts(Partitions)),
              LAMBDA r : r.symbol = Upper(got.symbol) /\ Within(r, got.date_from, got.date_to))

\* how often df holds row r
Occurrences(df, r) == Cardinality({ i \in DOMAIN df : df[i] = r })

\* C23: a read that returns gives only rows of its symbol, by date descending, at
\* most limit of them, and they are the limit most recent of all rows of the symbol
\* that pass the date filter, over all partitions.
C23_ReadReturnsMostRecent ==
    got.outcome = "ok" =>
        /\ \A i \in DOMAIN got.rows : got.rows[i].symbol = Upper(got.symbol)
        /\ \A i, j \in DOMAIN got.rows :
              i < j => ~DateLess(got.rows[i].date, got.rows[j].date)
        /\ Len(got.rows) = (IF got.limit < Len(Candidates) THEN got.limit ELSE Len(Candidates))
        /\ \A i \in DOMAIN got.rows :
              Occurrences(got.rows, got.rows[i]) <= Occurrences(Candidates, got.rows[i])
        /\ \A k \in DOMAIN Candidates :
              Occurrences(got.rows, Candidates[k]) < Occurrences(Candidates, Candidates[k])
              => \A i \in DOMAIN got.rows : ~DateLess(got.rows[i].date, Candidates[k].date)

\* a read of limit 1 with a lower bound over two partitions of the symbol, beside a
\* partition of another symbol: the one row returned is the latest
C23_Witness ==
    /\ got.outcome = "ok"
    /\ got.symbol = "a" /\ got.limit = 1 /\ got.date_from = D2 /\ got.date_to = NoDate
    /\ files[<<"A", 2024, 1>>].exists /\ files[<<"A", 2024, 2>>].exists
    /\ files[<<"B", 2024, 1>>].exists
    /\ Len(Candidates) = 2
    /\ got.rows = << PriceRow("A", D3, 10, 10) >>

\* the symbol of the read has no readable row that passes its filter
NothingToRead ==
    \/ \A p \in Partitions : p[1] = Upper(got.symbol) => ~files[p].exists
    \/ Candidates = <<>>

\* C24: the date filter of a read includes both bounds: every row returned has
\* date_from <= date <= date_to, and a read that limit does not cut short returns
\* every such row of its symbol; a read of a symbol without a partition, or without a
\* row that passes the filter, returns the empty sequence and does not raise.
C24_InclusiveFilterEmptyRead ==
    got # NoRead =>
        /\ got.outcome = "ok" =>
              /\ \A i \in DOMAIN got.rows : Within(got.rows[i], got.date_from, got.date_to)
              /\ Len(got.rows) < got.limit =>
                    \A k \in DOMAIN Candidates :
                      Occurrences(got.rows, Candidates[k]) = Occurrences(Candidates, Candidates[k])
        /\ NothingToRead => got.outcome = "ok" /\ got.rows = <<>>

-----------------------------------------------------------------------------
(* Properties of the path layout *)

\* two spellings of one symbol
SameIgnoringCase(s, t) ==
    LET lower(x) == CASE x = "A" -> "a" [] x = "B" -> "b" [] OTHER -> x
    IN  lower(s) = lower(t)

BothResolved == paths # NoPaths /\ paths.built[1] # NoPath /\ paths.built[2] # NoPath

\* C25: for one layer, dataset and source, two (symbol, date) pairs have the same
\* partition file exactly when the symbols are equal but for case and the dates
\* share year and month; the manifest file of two locations of one layer and
\* dataset is the same, whatever their symbols, dates and sources.
C25_PartitionPathOfLocation ==
    BothResolved =>
        /\ (paths.a.layer = paths.b.layer /\ paths.a.dataset = paths.b.dataset
               /\ paths.a.source = paths.b.source)
           => ((paths.built[1].data = paths.built[2].data)
                <=> (/\ SameIgnoringCase(paths.a.symbol, paths.b.symbol)
                     /\ paths.a.date[1] = paths.b.date[1]
                     /\ paths.a.date[2] = paths.b.date[2]))
        /\ (paths.a.layer = paths.b.layer /\ paths.a.dataset = paths.b.dataset)
           => paths.built[1].manifest = paths.built[2].manifest

\* two spellings of a symbol and two days of a month resolve to one file, and two
\* symbols of a dataset to one manifest
C25_Witness ==
    /\ BothResolved
    /\ paths.a.symbol = "a" /\ paths.b.symbol = "A"
    /\ paths.a.date = D1 /\ paths.b.date = D2
    /\ paths.a.layer = "bronze" /\ paths.a.source = "yfinance"
    /\ paths.built[1].data = paths.built[2].data
    /\ paths.built[1].manifest = paths.built[2].manifest

-----------------------------------------------------------------------------
(* Properties of writers of one partition file under different keys *)

\* calls c and d, under different idempotency keys, both wrote partition p and both
\* returned a receipt
BothWrote(c, d, p) ==
    /\ c # d
    /\ calls[c].idempotency_key # calls[d].idempotency_key
    /\ calls[c].pc = "done" /\ calls[c].outcome = "ok"
    /\ calls[d].pc = "done" /\ calls[d].outcome = "ok"
    /\ GroupOf(calls[c].rows, p) # <<>> /\ GroupOf(calls[d].rows, p) # <<>>

\* the file of p holds a row for every key call c wrote to p
Kept(c, p) == KeySet(GroupOf(calls[c].rows, p)) \subseteq KeySet(files[p].rows)

\* C26: two writers of one partition file under different keys run read, merge and
\* write with no lock: both return their own receipt with every row counted, both
\* keys get a manifest entry, and the file, when it is whole, holds the frame one of
\* them merged, so that the rows of the other can be missing (last write wins).
C26_LastWriteWins ==
    \A c, d \in CallIds : \A p \in Partitions :
      BothWrote(c, d, p) =>
        /\ calls[c].report.run_id = calls[c].run_id
        /\ calls[c].report.rows = Len(calls[c].rows)
        /\ \E i \in Entries : manifest[i].idempotency_key = calls[c].idempotency_key
        /\ p \notin torn =>
              /\ Kept(c, p) \/ Kept(d, p)
              /\ KeySet(files[p].rows) \subseteq
                    KeySet(calls[c].files_before[p].rows) \cup KeySet(calls[d].files_before[p].rows)
                      \cup KeySet(calls[c].rows) \cup KeySet(calls[d].rows)

\* both writers started on the empty store and report their rows as inserted, and
\* the file they both wrote, which is whole, lacks the row of one of them
C26_Witness ==
    \E c, d \in CallIds : \E p \in Partitions :
      /\ BothWrote(c, d, p)
      /\ torn = {}
      /\ calls[c].report.inserted = Len(calls[c].rows)
      /\ calls[d].report.inserted = Len(calls[d].rows)
      /\ \E i, j \in Entries :
            /\ manifest[i].run_id = calls[c].run_id
            /\ manifest[j].run_id = calls[d].run_id
      /\ ~Kept(c, p) /\ Kept(d, p)

-----------------------------------------------------------------------------
(* Properties of the idempotency key *)

\* the symbols of a request as a set, each stripped and upper-cased
NormSet(v) == { StripUpper(v[i]) : i \in DOMAIN v }

\* two requests that differ at most in the casing, the surrounding whitespace, the
\* repeats and the order of their symbols
SameNormalized(a, b) ==
    /\ a.window = b.window
    /\ NormSet(a.symbols) = NormSet(b.symbols)

\* C16: two requests that differ only in the casing, the surrounding whitespace,
\* the repeats or the order of their symbol lists have the same idempotency key,
\* in whichever order the keys are built.
C16_KeyOfNormalizedRequest ==
    (req # NoRequest /\ req.keys[1] # NoKey /\ req.keys[2] # NoKey
       /\ SameNormalized(req.a, req.b))
    => req.keys[1] = req.keys[2]

\* two valid requests whose symbol lists differ in casing, whitespace and order
C16_Witness ==
    /\ req # NoRequest
    /\ req.a.symbols = <<" b", "a">>
    /\ req.b.symbols = <<"A", "B">>
    /\ req.a.window = <<D1, D2>> /\ req.b.window = <<D1, D2>>
    /\ req.keys[1] # NoKey /\ req.keys[2] # NoKey
    /\ req.keys[1] = req.keys[2]
    /\ req.keys[1] # <<"ValueError">>

-----------------------------------------------------------------------------
(* Properties of the queue *)

\* the message ids of a sequence of (message_id, msg) pairs, pairwise distinct
DistinctIds(items) ==
    \A i, j \in DOMAIN items : i # j => items[i][1] # items[j][1]

\* C35: InMemoryQueueAdapter delivers in FIFO order and at most once: the
\* messages try_pop has returned so far are, in order, the first messages
\* enqueued; no message id is returned twice, by enqueue or by try_pop,
\* whether or not it was acked in between; try_pop on an empty queue returns
\* None and leaves the adapter as it was; a non-empty one returns the head
\* of the queue; ack of an id that is not in flight (unknown, or acked
\* already) leaves the adapter as it was.
C35_FifoAtMostOnce ==
    /\ Len(queue.popped) <= Len(queue.enqueued)
    /\ \A i \in DOMAIN queue.popped : queue.popped[i] = queue.enqueued[i]
    /\ DistinctIds(queue.enqueued)
    /\ DistinctIds(queue.popped)
    /\ queue.op = "try_pop" /\ queue.before._q = <<>>
         => queue.ret = <<>> /\ queue.self = queue.before
    /\ queue.op = "try_pop" /\ queue.before._q # <<>>
         => queue.ret = Head(queue.before._q)
    /\ queue.op = "ack" /\ queue.message_id \notin queue.before._inflight
         => queue.self = queue.before /\ queue.raised = ""

\* two messages were delivered, the first was acked, the second is in flight,
\* a third waits, and the ack just made named the id acked before
C35_Witness ==
    /\ Len(queue.popped) = 2
    /\ queue.self._q # <<>>
    /\ queue.op = "ack"
    /\ queue.message_id \in queue.acked
    /\ queue.message_id \notin queue.before._inflight
    /\ queue.self._inflight # {}

-----------------------------------------------------------------------------
(* Properties of the calls as they are scheduled *)

\* a call that runs has a next step it can take whatever the other calls do
NoCallWaits ==
    /\ \A c \in CallIds : Running(c) => ENABLED WriteStep(c)
    /\ Reading => ENABLED ReadStep

\* C36: every write and every read terminates: a call of upsert_prices or
\* get_prices that has started ends (it returns or raises) after finitely
\* many of its steps, and at no step does it wait for another writer, a lock
\* or a change of the manifest: its next step can always be taken.  A write
\* call never starts again, so it ends if from some point on it does not
\* run; the reader is called again and again, and is again and again at rest.
C36_EveryCallTerminates ==
    /\ \A c \in CallIds : <>[](~Running(c))
    /\ []<>(~Reading)
    /\ []NoCallWaits

\* two writes that ran at the same time on one partition file have both
\* returned a receipt, and a read that went through a file has returned rows
C36_Witness ==
    /\ \A c \in CallIds : calls[c].pc = "done" /\ calls[c].outcome = "ok"
    /\ calls[2].ended_before = {}
    /\ \E i \in DOMAIN calls[1].rows, j \in DOMAIN calls[2].rows :
          PartitionOf(calls[1].rows[i]) = PartitionOf(calls[2].rows[j])
    /\ reader.pc = "done" /\ reader.outcome = "ok" /\ reader.rows # <<>>

====
